---- MODULE Spec2Model ----
(***************************************************************************)
(* Delta Exchange option-chain pipeline (src/src/utils/dataUtils.js).      *)
(*                                                                         *)
(* Part 1: the REST client -- _get, _getAll, parseErrorPayload and         *)
(* formatHttpError -- as a state machine over requests in flight and the   *)
(* responses an arbitrary server gives.                                    *)
(* Part 2: the ticker normalizer -- parseFloat, parseOptionSymbol,         *)
(* normalizeTicker and the loop of normalizeOptionChain -- applied to      *)
(* bounded lists of raw tickers.                                           *)
(*                                                                         *)
(* JavaScript strings are TLA+ strings; JSON values are tagged records.    *)
(***************************************************************************)
EXTENDS Integers, Sequences, FiniteSets, TLC

VARIABLES
    scenario,   \* which client calls the caller makes in this behaviour
    baseUrl,    \* createDeltaClient(baseUrl)
    pc,         \* _getAll, per call: "idle", "awaitFetch", "awaitBody", "done", "failed"
    results,    \* _getAll, per call: the local `results`
    after,      \* _getAll, per call: the local `after`
    inflight,   \* per call: the requests sent and not yet answered
    response,   \* per call: the Response the last fetch resolved with
    returned,   \* per call: the value the call returned
    thrown,     \* per call: the errors the call raised, in order
    tracked,    \* per call: whether results, reqlog and resplog are still recorded
    reqlog,     \* history, per call: every request issued, in order
    resplog,    \* history, per call: every Response received, in order
    gpc,        \* _get: "idle", "awaitFetch", "awaitBody", "done", "failed"
    gcall,      \* _get: the (path, params) it was called with
    ginflight,  \* _get: the requests sent and not yet answered
    gresponse,  \* _get: the Response its fetch resolved with
    greturned,  \* _get: the value it returned
    gthrown,    \* _get: the errors it raised, in order
    greqlog,    \* history, _get: every request issued, in order
    dateRollsOver, \* whether the platform's Date accepts a day past the month's end
    ntickers,   \* normalizeOptionChain: the `tickers` it was called with
    nmin,       \* normalizeOptionChain: `minOpenInterest`
    npc,        \* normalizeOptionChain: "idle", "loop", "done", "failed"
    ni,         \* normalizeOptionChain: the position of the for-of loop in tickers
    nrecords,   \* normalizeOptionChain: the local `records`
    nreturned,  \* normalizeOptionChain: the value it returned
    nthrown,    \* normalizeOptionChain: the errors it raised, in order
    nlog,       \* history: every (ticker, normalizeTicker(ticker)) pair, in order
    apc,        \* a synchronous function: "idle", or which call has returned
    ainput,     \* a synchronous function: the arguments it was called with
    aoutput,    \* a synchronous function: what it returned or raised
    aoutput2,   \* topInstrumentsForCandles: what it returned for its own output
    aheld       \* the list the caller holds and passes, as the calls have left it

clientVars == <<scenario, baseUrl>>
getAllVars == <<pc, results, after, inflight, response, returned, thrown,
                tracked, reqlog, resplog>>
getVars    == <<gpc, gcall, ginflight, gresponse, greturned, gthrown, greqlog>>
normVars   == <<dateRollsOver, ntickers, nmin, npc, ni, nrecords, nreturned,
                nthrown, nlog>>
pureVars   == <<apc, ainput, aoutput, aoutput2, aheld>>

(***************************************************************************)
(* Bounds of the model.                                                    *)
(***************************************************************************)
\* Pages per _getAll call whose records the model records; a call that asks
\* for more keeps running, with tracked[c] = FALSE.
MaxPages == 3

\* Raw tickers in one normalizeOptionChain call.
MaxTickers == 2

\* The longest list of records that is grouped or ranked.
MaxRecords == 3

\* The most series of candles that are exported together.
MaxSeries == 2

\* The most products _getAll resolves with for getOptionProducts.
MaxProducts == 3

\* The longest list the caller holds and passes to one function after another.
MaxHeld == 2

\* One _getAll call per asset (getOptionProducts of each selected asset).
Calls == {"BTC", "ETH"}

Min(a, b) == IF a < b THEN a ELSE b

(***************************************************************************)
(* JSON values.                                                            *)
(***************************************************************************)
Undefined   == [t |-> "undefined"]
JNull       == [t |-> "null"]
JBool(b)    == [t |-> "bool", b |-> b]
JNum(n)     == [t |-> "num", n |-> n]
JStr(s)     == [t |-> "str", s |-> s]
JObj(f)     == [t |-> "obj", f |-> f]
\* An array of n records; record i of the array is the record base + i.
JList(base, n) == [t |-> "list", base |-> base, n |-> n]

NoFields == [k \in {} |-> Undefined]

\* v.k, and v?.k for a v that is not null or undefined.
Get(v, k) == IF v.t = "obj" /\ k \in DOMAIN v.f THEN v.f[k] ELSE Undefined

Nullish(v) == v.t \in {"undefined", "null"}

\* a ?? b
Coalesce(a, b) == IF Nullish(a) THEN b ELSE a

\* ToBoolean
Truthy(v) ==
    CASE v.t \in {"undefined", "null"} -> FALSE
      [] v.t = "bool" -> v.b
      [] v.t = "num"  -> v.n # 0
      [] v.t = "str"  -> v.s # ""
      [] v.t = "nan"  -> FALSE
      [] OTHER        -> TRUE

\* The elements of an array value, as a sequence.
Records(v) == [i \in 1..v.n |-> v.base + i]

\* The order in which the keys of an object were inserted.
KeyOrder == <<"success", "result", "meta", "after", "error", "code",
              "message", "context", "raw">>

\* The recursions over long strings and arrays split their range in halves,
\* which keeps them shallow.
RECURSIVE JoinRange(_, _, _)
JoinRange(s, lo, hi) ==
    IF lo > hi THEN ""
    ELSE IF lo = hi THEN (IF lo > 1 THEN "," ELSE "") \o ToString(s[lo])
    ELSE LET mid == (lo + hi) \div 2
         IN  JoinRange(s, lo, mid) \o JoinRange(s, mid + 1, hi)

\* s.join(',')
JoinNums(s) == JoinRange(s, 1, Len(s))

EscapeChar(ch) ==
    CASE ch = "\"" -> "\\\""
      [] ch = "\\" -> "\\\\"
      [] ch = "\n" -> "\\n"
      [] ch = "\t" -> "\\t"
      [] ch = "\r" -> "\\r"
      [] OTHER     -> ch

RECURSIVE EscapeRange(_, _, _)
EscapeRange(s, lo, hi) ==
    IF lo > hi THEN ""
    ELSE IF lo = hi THEN EscapeChar(SubSeq(s, lo, lo))
    ELSE LET mid == (lo + hi) \div 2
         IN  EscapeRange(s, lo, mid) \o EscapeRange(s, mid + 1, hi)

EscapeJson(s) == EscapeRange(s, 1, Len(s))

RECURSIVE Stringify(_)
RECURSIVE StringifyFields(_, _, _)
\* JSON.stringify
Stringify(v) ==
    CASE v.t = "null" -> "null"
      [] v.t = "bool" -> IF v.b THEN "true" ELSE "false"
      [] v.t = "num"  -> ToString(v.n)
      [] v.t = "str"  -> "\"" \o EscapeJson(v.s) \o "\""
      [] v.t = "list" -> "[" \o JoinNums(Records(v)) \o "]"
      [] v.t = "obj"  -> "{" \o StringifyFields(v.f, 1, TRUE) \o "}"

StringifyFields(f, i, first) ==
    IF i > Len(KeyOrder) THEN ""
    ELSE LET k == KeyOrder[i] IN
         IF k \in DOMAIN f /\ f[k].t # "undefined"
         THEN (IF first THEN "" ELSE ",") \o "\"" \o k \o "\":" \o Stringify(f[k])
                  \o StringifyFields(f, i + 1, FALSE)
         ELSE StringifyFields(f, i + 1, first)

\* String(v), `${v}`
JsString(v) ==
    CASE v.t = "undefined" -> "undefined"
      [] v.t = "null" -> "null"
      [] v.t = "bool" -> IF v.b THEN "true" ELSE "false"
      [] v.t = "num"  -> ToString(v.n)
      [] v.t = "str"  -> v.s
      [] v.t = "list" -> JoinNums(Records(v))
      [] v.t = "obj"  -> "[object Object]"

(***************************************************************************)
(* Strings.                                                                *)
(***************************************************************************)
IsSpace(ch) == ch \in {" ", "\n", "\t", "\r", "\f"}

StartsWith(s, p) == Len(s) >= Len(p) /\ SubSeq(s, 1, Len(p)) = p

\* s contains sub
Contains(s, sub) ==
    \E i \in 0..(Len(s) - Len(sub)) : SubSeq(s, i + 1, i + Len(sub)) = sub

\* s.slice(0, n)
Slice0(s, n) == SubSeq(s, 1, Min(Len(s), n))

RECURSIVE CollapseRange(_, _, _)
\* s.replace(/\s+/g, ' ') of the characters lo..hi: every run of white space
\* becomes one space; a run that crosses the middle is joined there.
CollapseRange(s, lo, hi) ==
    IF lo > hi THEN ""
    ELSE IF lo = hi THEN (IF IsSpace(SubSeq(s, lo, lo)) THEN " " ELSE SubSeq(s, lo, lo))
    ELSE LET mid   == (lo + hi) \div 2
             left  == CollapseRange(s, lo, mid)
             right == CollapseRange(s, mid + 1, hi)
         IN  IF SubSeq(left, Len(left), Len(left)) = " " /\ SubSeq(right, 1, 1) = " "
             THEN left \o SubSeq(right, 2, Len(right))
             ELSE left \o right

CollapseSpaces(s) == CollapseRange(s, 1, Len(s))

RECURSIVE TrimStart(_)
TrimStart(s) ==
    IF s # "" /\ IsSpace(SubSeq(s, 1, 1)) THEN TrimStart(SubSeq(s, 2, Len(s))) ELSE s

RECURSIVE TrimEnd(_)
TrimEnd(s) ==
    IF s # "" /\ IsSpace(SubSeq(s, Len(s), Len(s)))
    THEN TrimEnd(SubSeq(s, 1, Len(s) - 1)) ELSE s

\* s.trim()
Trim(s) == TrimEnd(TrimStart(s))

RECURSIVE Repeat(_, _)
Repeat(s, n) ==
    IF n = 0 THEN ""
    ELSE IF n = 1 THEN s
    ELSE Repeat(s, n \div 2) \o Repeat(s, n - (n \div 2))

(***************************************************************************)
(* The REST client.                                                        *)
(***************************************************************************)
PAGE_SIZE == 1000

\* response.text().slice limit of formatHttpError
CLIP == 220

PROD_BASE_URL == "https://api.india.delta.exchange"
TEST_BASE_URL == "https://cdn-ind.testnet.deltaex.org"

proxyPrefix(url) ==
    IF StartsWith(url, "https://cdn-ind.testnet") THEN "/delta-test-proxy"
    ELSE "/delta-proxy"

\* createDeltaClient: base = baseUrl.replace(/\/$/, '')
ClientBase(url) ==
    IF url # "" /\ SubSeq(url, Len(url), Len(url)) = "/"
    THEN SubSeq(url, 1, Len(url) - 1) ELSE url

\* A response body: text that JSON.parse turns into the value v, or text
\* that JSON.parse rejects.
JsonBody(v) == [k |-> "json", v |-> v]
TextBody(s) == [k |-> "text", s |-> s]

\* response.text()
BodyText(body) == IF body.k = "json" THEN Stringify(body.v) ELSE body.s

Http(status, body) ==
    [kind |-> "http", ok |-> (status >= 200 /\ status <= 299),
     status |-> status, body |-> body]

\* fetch() rejecting: no response at all
NetworkFailure == [kind |-> "reject"]

Err(name, message) == [name |-> name, message |-> message]

parseErrorPayload(resp) ==
    LET text == BodyText(resp.body) IN
    IF text = "" THEN JNull
    ELSE IF resp.body.k = "json" THEN resp.body.v
    ELSE JObj([raw |-> JStr(text)])

formatHttpError(status, path, payload) ==
    LET head == "HTTP " \o ToString(status) \o " for " \o path
        error == Get(payload, "error")
    IN  IF Truthy(error) /\ error.t = "str"
        THEN LET message == IF Truthy(Get(payload, "message"))
                            THEN ": " \o JsString(Get(payload, "message"))
                            ELSE ""
             IN  head \o " (" \o error.s \o message \o ")"
        ELSE IF Truthy(Get(error, "code"))
        THEN head \o " (" \o JsString(Get(error, "code")) \o ")"
        ELSE IF Truthy(Get(payload, "raw"))
        THEN LET compact == Trim(CollapseSpaces(JsString(Get(payload, "raw"))))
                 clipped == Slice0(compact, CLIP)
             IN  head \o " (" \o clipped \o ")"
        ELSE head

\* `Delta API error for ${path}: ${JSON.stringify(payload.error ?? payload)}`
AppErrorMessage(status, path, payload) ==
    "Delta API error for " \o path \o ": "
        \o Stringify(Coalesce(Get(payload, "error"), payload))

NoError == [name |-> "none", message |-> ""]

\* Mutant: a payload with success = false is taken as a page.
ResponseError_IgnoresFlag(path, resp) ==
    IF ~resp.ok
    THEN Err("Error", formatHttpError(resp.status, path, parseErrorPayload(resp)))
    ELSE IF resp.body.k # "json"
    THEN Err("SyntaxError", "Unexpected token in JSON")
    ELSE IF Nullish(resp.body.v)
    THEN Err("TypeError", "Cannot read properties of null (reading 'success')")
    ELSE NoError

\* What the lines between `await fetch` and `return`/`results.push` raise
\* for the response resp, or NoError.
ResponseError(path, resp) ==
    IF ~resp.ok
    THEN Err("Error", formatHttpError(resp.status, path, parseErrorPayload(resp)))
    ELSE IF resp.body.k # "json"
    THEN Err("SyntaxError", "Unexpected token in JSON")            \* response.json() rejects
    ELSE IF Nullish(resp.body.v)
    THEN Err("TypeError", "Cannot read properties of null (reading 'success')")
    ELSE IF ~Truthy(Get(resp.body.v, "success"))
    THEN Err("Error", AppErrorMessage(resp.status, path, resp.body.v))
    ELSE NoError

\* Object.entries(params).forEach(... url.searchParams.set(k, String(v)))
Request(prefix, path, params) ==
    [method |-> "GET", accept |-> "application/json", url |-> prefix \o path,
     query |-> [k \in {x \in DOMAIN params :
                          ~Nullish(params[x]) /\ params[x] # JStr("")}
                  |-> JsString(params[k])]]

\* Mutant: the cursor is never injected.
PageParams_NoCursor(params, aft) == [page_size |-> JNum(PAGE_SIZE)] @@ params

\* { ...params, page_size: PAGE_SIZE, ...(after ? { after } : {}) }
PageParams(params, aft) ==
    (IF Truthy(aft) THEN [after |-> aft] ELSE NoFields)
        @@ [page_size |-> JNum(PAGE_SIZE)] @@ params

\* Mutant: `results` is one list shared by all calls.
LocalResults_Shared(c, res) == [d \in Calls |-> res]

\* `results` is a local of the call: an assignment by call c changes c's list only.
LocalResults(c, res) == [results EXCEPT ![c] = res]

\* const page = payload.result ?? []
PageOf(payload) == Coalesce(Get(payload, "result"), JList(0, 0))

\* Mutant: a record already in the list is not added again.
AppendPage_Dedup(res, page) ==
    LET seen == {res[i] : i \in 1..Len(res)}
    IN  res \o SelectSeq(Records(page), LAMBDA x : x \notin seen)

\* results.push(...page)
AppendPage(res, page) == res \o Records(page)

\* Mutant: a short page does not clear the cursor.
NextAfter_TrustsCursor(payload, page) ==
    Coalesce(Get(Get(payload, "meta"), "after"), JNull)

\* after = payload.meta?.after ?? null; if (page.length < PAGE_SIZE) after = null
NextAfter(payload, page) ==
    IF page.n < PAGE_SIZE THEN JNull
    ELSE Coalesce(Get(Get(payload, "meta"), "after"), JNull)

\* Mutant: an absent result is returned as it is.
GetResult_NoDefault(payload) == Get(payload, "result")

\* return payload.result ?? []
GetResult(payload) == Coalesce(Get(payload, "result"), JList(0, 0))

NotReturned == [t |-> "none"]
Returned(v) == [t |-> "value", v |-> v]

(***************************************************************************)
(* The caller and the server.                                              *)
(***************************************************************************)
\* The calls the caller makes: one _getAll, two concurrent _getAll, one _get.
Scenarios == {"getAll", "getAllConcurrent", "get"}

CallsOf(sc) ==
    CASE sc = "getAll"           -> {"BTC"}
      [] sc = "getAllConcurrent" -> Calls
      [] OTHER                   -> {}

\* getOptionProducts: _getAll(base, '/v2/products', {...})
GetAllPath == "/v2/products"
GetAllParams ==
    [contract_types |-> JStr("call_options,put_options"), states |-> JStr("live")]

\* getOptionChain(asset, expiryDate) and getOhlcCandles(symbol, resolution, start, end)
GetCalls ==
    { [path |-> "/v2/tickers",
       params |-> [contract_types |-> JStr("call_options,put_options"),
                   underlying_asset_symbols |-> JStr("BTC")]],
      [path |-> "/v2/tickers",
       params |-> [contract_types |-> JStr("call_options,put_options"),
                   underlying_asset_symbols |-> JStr(""),
                   expiry_date |-> JStr("20-02-2025")]],
      [path |-> "/v2/history/candles",
       params |-> [symbol |-> JStr("C-BTC-95200-200225"), resolution |-> Undefined,
                   start |-> JStr("1700000000"), end |-> JStr("1700003600")]] }

\* The cursors the server hands to call c.
Cursors(c) == {c \o ":p2", c \o ":p3"}

Field(k, v) == IF v.t = "undefined" THEN NoFields ELSE (k :> v)

Metas(c) ==
    {Undefined, JObj(NoFields), JObj([after |-> JNull]), JObj([after |-> JStr("")])}
        \cup {JObj([after |-> JStr(cur)]) : cur \in Cursors(c)}

ResultLists ==
    {Undefined, JNull, JList(0, 0), JList(0, 340), JList(0, PAGE_SIZE),
     JList(PAGE_SIZE, PAGE_SIZE + 1)}

SuccessPayloads(c) ==
    {JObj([success |-> JBool(TRUE)] @@ Field("result", r) @@ Field("meta", m)) :
        r \in ResultLists, m \in Metas(c)}
    \cup {JObj([success |-> JBool(TRUE), result |-> JObj([t |-> JList(0, 2)]),
                meta |-> JObj([after |-> JStr(cur)])]) : cur \in Cursors(c)}

AppFailurePayloads(c) ==
    { JObj([success |-> JBool(FALSE), error |-> JObj([code |-> JStr("bad_schema")])]),
      JObj([success |-> JBool(FALSE), error |-> JStr("invalid contract")]),
      JObj([success |-> JBool(FALSE)]),
      JObj([success |-> JBool(FALSE),
            error |-> JObj([code |-> JStr("unavailable"),
                            context |-> JObj([message |-> JStr(Repeat("retry later ", 25))])])]),
      JObj([result |-> JList(0, 2)]),
      JObj([success |-> JBool(FALSE), result |-> JList(0, 340),
            meta |-> JObj([after |-> JStr(c \o ":p2")])]) }

ErrorBodies ==
    { TextBody(""),
      TextBody("  Bad \n\t Gateway \n"),
      TextBody("   "),
      TextBody("<html>" \o Repeat("x y  ", 60) \o "</html>"),
      JsonBody(JNull),
      JsonBody(JStr("oops")),
      JsonBody(JObj([error |-> JStr("not_found"), message |-> JStr("no such product")])),
      JsonBody(JObj([error |-> JStr("rate_limited")])),
      JsonBody(JObj([error |-> JObj([code |-> JStr("bad_schema")]),
                     message |-> JStr("ignored")])),
      JsonBody(JObj([error |-> JObj([context |-> JStr("no code")])])),
      JsonBody(JObj([success |-> JBool(FALSE)])),
      JsonBody(JObj([raw |-> JStr("upstream  detail")])) }

ErrorStatuses == {404, 500}

\* Every response the server may give to a request of call c.
AnyResponse(c) ==
    {NetworkFailure}
        \cup {Http(200, JsonBody(p)) : p \in SuccessPayloads(c) \cup AppFailurePayloads(c)}
        \cup {Http(200, JsonBody(JNull)), Http(200, TextBody("<html>ok</html>"))}
        \cup {Http(st, b) : st \in ErrorStatuses, b \in ErrorBodies}

\* The first record of the pages the server keeps for call c.
FirstRecord(c) == IF c = "BTC" THEN 0 ELSE 5 * PAGE_SIZE

\* The canned responses of the two-call scenario.
CannedResponse(c) ==
    { Http(200, JsonBody(JObj([success |-> JBool(TRUE),
                               result |-> JList(FirstRecord(c), PAGE_SIZE),
                               meta |-> JObj([after |-> JStr(c \o ":p2")])]))),
      Http(200, JsonBody(JObj([success |-> JBool(TRUE),
                               result |-> JList(FirstRecord(c) + PAGE_SIZE, 340),
                               meta |-> JObj([after |-> JStr(c \o ":p3")])]))),
      Http(200, JsonBody(JObj([success |-> JBool(TRUE),
                               result |-> JList(FirstRecord(c) + PAGE_SIZE, PAGE_SIZE)]))),
      Http(500, TextBody("")),
      NetworkFailure }

ServerResponses(sc, c) ==
    IF sc = "getAllConcurrent" THEN CannedResponse(c) ELSE AnyResponse(c)

(***************************************************************************)
(* _getAll(baseUrl, path, params), one instance per call c.                *)
(***************************************************************************)
Prefix == proxyPrefix(ClientBase(baseUrl))

\* The request of one turn of the do-while loop.
PageRequest(aft) == Request(Prefix, GetAllPath, PageParams(GetAllParams, aft))

\* A call that has used up the MaxPages pages the model records goes on
\* unrecorded: its results and its histories are dropped.
StaysTracked(c) == tracked[c] /\ Len(reqlog[c]) < MaxPages

\* const results = []; let after = null; first turn of the loop up to `await fetch`
GetAll_Invoke(c) ==
    /\ c \in CallsOf(scenario)
    /\ pc[c] = "idle"
    /\ results' = LocalResults(c, <<>>)
    /\ after' = [after EXCEPT ![c] = JNull]
    /\ inflight' = [inflight EXCEPT ![c] = Append(@, PageRequest(JNull))]
    /\ reqlog' = [reqlog EXCEPT ![c] = Append(@, PageRequest(JNull))]
    /\ pc' = [pc EXCEPT ![c] = "awaitFetch"]
    /\ UNCHANGED <<response, returned, thrown, tracked, resplog, clientVars, getVars, normVars, pureVars>>

\* The server answers the outstanding request and `await fetch` resumes.
GetAll_FetchSettles(c) ==
    /\ pc[c] = "awaitFetch"
    /\ inflight[c] # <<>>
    /\ \E r \in ServerResponses(scenario, c) :
          /\ inflight' = [inflight EXCEPT ![c] = Tail(@)]
          /\ thrown' = [thrown EXCEPT ![c] =
                           IF r.kind = "reject"
                           THEN Append(@, Err("TypeError", "Failed to fetch")) ELSE @]
          /\ pc' = [pc EXCEPT ![c] = IF r.kind = "reject" THEN "failed" ELSE "awaitBody"]
          /\ response' = [response EXCEPT ![c] = IF r.kind = "reject" THEN @ ELSE r]
          /\ resplog' = [resplog EXCEPT ![c] =
                            IF r.kind # "reject" /\ tracked[c] THEN Append(@, r) ELSE @]
    /\ UNCHANGED <<results, after, returned, tracked, reqlog, clientVars, getVars, normVars, pureVars>>

\* From `if (!response.ok)` to the loop test, and the next turn up to `await
\* fetch` or the return.
GetAll_BodyRead(c) ==
    /\ pc[c] = "awaitBody"
    /\ LET resp    == response[c]
           err     == ResponseError(GetAllPath, resp)
           page    == PageOf(resp.body.v)
           \* results.push(...page) of a page that is not iterable raises
           raised  == IF err # NoError THEN err
                      ELSE IF page.t # "list" THEN Err("TypeError", "page is not iterable")
                      ELSE NoError
           aft     == NextAfter(resp.body.v, page)
           again   == raised = NoError /\ Truthy(aft)
           keep    == IF again THEN StaysTracked(c) ELSE tracked[c]
       IN
       /\ thrown' = [thrown EXCEPT ![c] = IF raised # NoError THEN Append(@, raised) ELSE @]
       /\ pc' = [pc EXCEPT ![c] =
                    IF raised # NoError THEN "failed"
                    ELSE IF again THEN "awaitFetch" ELSE "done"]
       /\ after' = [after EXCEPT ![c] = IF raised # NoError THEN @ ELSE aft]
       /\ results' = IF raised # NoError THEN results
                     ELSE LocalResults(c, IF keep THEN AppendPage(results[c], page) ELSE <<>>)
       /\ returned' = [returned EXCEPT ![c] =
                          IF raised = NoError /\ ~again
                          THEN Returned(IF keep THEN AppendPage(results[c], page) ELSE <<>>)
                          ELSE @]
       /\ inflight' = [inflight EXCEPT ![c] = IF again THEN Append(@, PageRequest(aft)) ELSE @]
       /\ reqlog' = [reqlog EXCEPT ![c] =
                        IF ~again THEN @
                        ELSE IF keep THEN Append(@, PageRequest(aft)) ELSE <<>>]
       /\ resplog' = [resplog EXCEPT ![c] = IF keep THEN @ ELSE <<>>]
       /\ tracked' = [tracked EXCEPT ![c] = keep]
    /\ UNCHANGED <<response, clientVars, getVars, normVars, pureVars>>

(***************************************************************************)
(* _get(baseUrl, path, params).                                            *)
(***************************************************************************)
Get_Invoke(call) ==
    /\ scenario = "get"
    /\ gpc = "idle"
    /\ gcall' = call
    /\ ginflight' = Append(ginflight, Request(Prefix, call.path, call.params))
    /\ greqlog' = Append(greqlog, Request(Prefix, call.path, call.params))
    /\ gpc' = "awaitFetch"
    /\ UNCHANGED <<gresponse, greturned, gthrown, clientVars, getAllVars, normVars, pureVars>>

Get_FetchSettles ==
    /\ gpc = "awaitFetch"
    /\ ginflight # <<>>
    /\ \E r \in ServerResponses(scenario, "BTC") :
          /\ ginflight' = Tail(ginflight)
          /\ IF r.kind = "reject"
             THEN /\ gthrown' = Append(gthrown, Err("TypeError", "Failed to fetch"))
                  /\ gpc' = "failed"
                  /\ UNCHANGED gresponse
             ELSE /\ gresponse' = r
                  /\ gpc' = "awaitBody"
                  /\ UNCHANGED gthrown
    /\ UNCHANGED <<gcall, greturned, greqlog, clientVars, getAllVars, normVars, pureVars>>

Get_BodyRead ==
    /\ gpc = "awaitBody"
    /\ LET err == ResponseError(gcall.path, gresponse) IN
       IF err # NoError
       THEN /\ gthrown' = Append(gthrown, err)
            /\ gpc' = "failed"
            /\ UNCHANGED greturned
       ELSE /\ greturned' = Returned(GetResult(gresponse.body.v))
            /\ gpc' = "done"
            /\ UNCHANGED gthrown
    /\ UNCHANGED <<gcall, ginflight, gresponse, greqlog, clientVars, getAllVars, normVars, pureVars>>

(***************************************************************************)
(* JavaScript numbers and parseFloat.                                      *)
(***************************************************************************)
NaN == [t |-> "nan"]

JInf(neg) == [t |-> "inf", neg |-> neg]

\* The number m / 10^d, d >= 1 and m not a multiple of 10; an integer is a
\* JNum.  -0 is JNum(0): the code never tells them apart.
JFrac(m, d) == [t |-> "frac", m |-> m, d |-> d]

\* The epoch time days * 86400000 + msOfDay, in milliseconds.
EpochMs(days, msOfDay) == [t |-> "ms", days |-> days, msOfDay |-> msOfDay]

IsNaN(v) == v.t = "nan"

RECURSIVE Pow10(_)
Pow10(n) == IF n = 0 THEN 1 ELSE 10 * Pow10(n - 1)

RECURSIVE Decimal(_, _)
\* The number m / 10^d in its normal form.
Decimal(m, d) ==
    IF m = 0 THEN JNum(0)
    ELSE IF d <= 0 THEN JNum(m * Pow10(0 - d))
    ELSE IF m % 10 = 0 THEN Decimal(m \div 10, d - 1)
    ELSE JFrac(m, d)

\* a < b for numbers; a comparison with NaN is false.
Less(a, b) ==
    LET ma == IF a.t = "num" THEN a.n ELSE a.m
        da == IF a.t = "num" THEN 0 ELSE a.d
        mb == IF b.t = "num" THEN b.n ELSE b.m
        db == IF b.t = "num" THEN 0 ELSE b.d
    IN  CASE a.t = "nan" \/ b.t = "nan" -> FALSE
          [] a.t = "inf" -> a.neg /\ b # a
          [] b.t = "inf" -> ~b.neg
          [] OTHER       -> ma * Pow10(db) < mb * Pow10(da)

\* s[i - 1], "" past the ends.
CharAt(s, i) == IF i >= 1 /\ i <= Len(s) THEN SubSeq(s, i, i) ELSE ""

IsDigit(ch) == ch \in {"0", "1", "2", "3", "4", "5", "6", "7", "8", "9"}

DigitValue(ch) ==
    CASE ch = "0" -> 0 [] ch = "1" -> 1 [] ch = "2" -> 2 [] ch = "3" -> 3
      [] ch = "4" -> 4 [] ch = "5" -> 5 [] ch = "6" -> 6 [] ch = "7" -> 7
      [] ch = "8" -> 8 [] ch = "9" -> 9

RECURSIVE DigitsLen(_, _)
\* The length of the run of digits of s that starts at position i.
DigitsLen(s, i) == IF IsDigit(CharAt(s, i)) THEN 1 + DigitsLen(s, i + 1) ELSE 0

RECURSIVE DigitsRange(_, _, _)
\* The number the digits s[lo], ..., s[hi] write.
DigitsRange(s, lo, hi) ==
    IF lo > hi THEN 0
    ELSE 10 * DigitsRange(s, lo, hi - 1) + DigitValue(CharAt(s, hi))

DigitsValue(s) == DigitsRange(s, 1, Len(s))

\* The value of the one-element set S: Only({e(x) : x \in {v}}) is e(v), with
\* v worked out once, as a `const x = v` is.
Only(S) == CHOOSE x \in S : TRUE

AllDigits(s) == \A i \in 1..Len(s) : IsDigit(CharAt(s, i))

\* The decimal literal (sign, digits, fraction, exponent) or Infinity that s
\* begins with, NaN when it begins with none.
ParseDecimalPrefix(s) ==
    LET neg  == CharAt(s, 1) = "-"
        p    == IF CharAt(s, 1) \in {"-", "+"} THEN 2 ELSE 1
        n1   == DigitsLen(s, p)
        dot  == CharAt(s, p + n1) = "."
        n2   == IF dot THEN DigitsLen(s, p + n1 + 1) ELSE 0
        q    == p + n1 + (IF dot THEN 1 + n2 ELSE 0)
        eneg == CharAt(s, q + 1) = "-"
        ep   == IF CharAt(s, q + 1) \in {"-", "+"} THEN q + 2 ELSE q + 1
        n3   == IF CharAt(s, q) \in {"e", "E"} THEN DigitsLen(s, ep) ELSE 0
        exp  == (IF eneg THEN 0 - 1 ELSE 1) * DigitsRange(s, ep, ep + n3 - 1)
        mant == DigitsRange(s, p, p + n1 - 1) * Pow10(n2)
                    + DigitsRange(s, p + n1 + 1, p + n1 + n2)
    IN  IF StartsWith(SubSeq(s, p, Len(s)), "Infinity") THEN JInf(neg)
        ELSE IF n1 + n2 = 0 THEN NaN
        ELSE Only({ Decimal(m, d) :
                      m \in {(IF neg THEN 0 - 1 ELSE 1) * mant},
                      d \in {n2 - exp} })

\* parseFloat of a string: white space is skipped, then the longest prefix
\* that is a decimal literal is the value.
ParseFloatText(text) == Only({ ParseDecimalPrefix(s) : s \in {TrimStart(text)} })

\* parseFloat(v): of String(v)
parseFloat(v) == ParseFloatText(JsString(v))

\* v || null
OrNull(v) == Only({ IF Truthy(x) THEN x ELSE JNull : x \in {v} })

(***************************************************************************)
(* The symbol codec.                                                       *)
(***************************************************************************)
\* The position of the first ch in s at or after from, 0 when there is none.
IndexOf(s, ch, from) ==
    IF \E i \in from..Len(s) : CharAt(s, i) = ch
    THEN CHOOSE i \in from..Len(s) :
             CharAt(s, i) = ch /\ \A j \in from..(i - 1) : CharAt(s, j) # ch
    ELSE 0

RECURSIVE SplitFrom(_, _, _)
\* The parts of s from the position from on.
SplitFrom(s, ch, from) ==
    Only({ IF i = 0 THEN <<SubSeq(s, from, Len(s))>>
           ELSE <<SubSeq(s, from, i - 1)>> \o SplitFrom(s, ch, i + 1) :
           i \in {IndexOf(s, ch, from)} })

\* s.split(ch)
Split(s, ch) == SplitFrom(s, ch, 1)

\* s.slice(from, to), 0 <= from <= to
Slice(s, from, to) == SubSeq(s, Min(Len(s), from) + 1, Min(Len(s), to))

IsLeap(y) == (y % 4 = 0 /\ y % 100 # 0) \/ y % 400 = 0

DaysInMonth(y, m) ==
    IF m = 2 THEN (IF IsLeap(y) THEN 29 ELSE 28)
    ELSE IF m \in {4, 6, 9, 11} THEN 30 ELSE 31

\* The days from 1970-01-01 to the day d of the month m of the year y.
DaysFromCivil(y, m, d) ==
    LET yy  == IF m <= 2 THEN y - 1 ELSE y
        era == yy \div 400
        yoe == yy - era * 400
        mp  == IF m > 2 THEN m - 3 ELSE m + 9
        doy == (153 * mp + 2) \div 5 + d - 1
        doe == yoe * 365 + yoe \div 4 - yoe \div 100 + doy
    IN  era * 146097 + doe - 719468

\* new Date(`${year}-${month}-${day}T08:00:00Z`).getTime(); a day of the
\* month past the month's end is an invalid date on some platforms and rolls
\* over into the next month on others.
ExpiryMs(year, month, day, rollsOver) ==
    IF ~(AllDigits(year) /\ AllDigits(month) /\ AllDigits(day)) THEN NaN
    ELSE LET y == DigitsValue(year)
             m == DigitsValue(month)
             d == DigitsValue(day)
         IN  IF m \notin 1..12 \/ d \notin 1..31 THEN NaN
             ELSE IF d > DaysInMonth(y, m) /\ ~rollsOver THEN NaN
             ELSE EpochMs(DaysFromCivil(y, m, 1) + d - 1, 8 * 3600000)

Throw(e) == [t |-> "throw", e |-> e]

\* Mutant: the length of the expiry part is not checked.
SymbolOfParts_NoLengthCheck(parts, rollsOver) ==
    LET typeChar  == parts[1]
        asset     == parts[2]
        strikeStr == parts[3]
        expiryStr == parts[4]
        day       == Slice(expiryStr, 0, 2)
        month     == Slice(expiryStr, 2, 4)
        year      == "20" \o Slice(expiryStr, 4, 6)
    IN  IF typeChar \notin {"C", "P"} THEN JNull
        ELSE Only({
            IF IsNaN(strike) THEN JNull
            ELSE JObj([optionType |-> JStr(IF typeChar = "C" THEN "call" ELSE "put"),
                       asset      |-> JStr(asset),
                       strike     |-> strike,
                       expiryDate |-> JStr(year \o "-" \o month \o "-" \o day),
                       expiryMs   |-> ExpiryMs(year, month, day, rollsOver),
                       expiryRaw  |-> JStr(expiryStr)]) :
            strike \in {ParseFloatText(strikeStr)} })

\* Mutant: the expiry is read as MMDDYY.
SymbolOfParts_MonthFirst(parts, rollsOver) ==
    LET typeChar  == parts[1]
        asset     == parts[2]
        strikeStr == parts[3]
        expiryStr == parts[4]
        day       == Slice(expiryStr, 2, 4)
        month     == Slice(expiryStr, 0, 2)
        year      == "20" \o Slice(expiryStr, 4, 6)
    IN  IF typeChar \notin {"C", "P"} THEN JNull
        ELSE Only({
            IF IsNaN(strike) THEN JNull
            ELSE IF Len(expiryStr) < 6 THEN JNull
            ELSE JObj([optionType |-> JStr(IF typeChar = "C" THEN "call" ELSE "put"),
                       asset      |-> JStr(asset),
                       strike     |-> strike,
                       expiryDate |-> JStr(year \o "-" \o month \o "-" \o day),
                       expiryMs   |-> ExpiryMs(year, month, day, rollsOver),
                       expiryRaw  |-> JStr(expiryStr)]) :
            strike \in {ParseFloatText(strikeStr)} })

\* parseOptionSymbol from `const [typeChar, asset, strikeStr, expiryStr] = parts` on.
SymbolOfParts(parts, rollsOver) ==
    LET typeChar  == parts[1]
        asset     == parts[2]
        strikeStr == parts[3]
        expiryStr == parts[4]
        day       == Slice(expiryStr, 0, 2)
        month     == Slice(expiryStr, 2, 4)
        year      == "20" \o Slice(expiryStr, 4, 6)
    IN  IF typeChar \notin {"C", "P"} THEN JNull
        ELSE Only({
            IF IsNaN(strike) THEN JNull
            ELSE IF Len(expiryStr) < 6 THEN JNull
            ELSE JObj([optionType |-> JStr(IF typeChar = "C" THEN "call" ELSE "put"),
                       asset      |-> JStr(asset),
                       strike     |-> strike,
                       expiryDate |-> JStr(year \o "-" \o month \o "-" \o day),
                       expiryMs   |-> ExpiryMs(year, month, day, rollsOver),
                       expiryRaw  |-> JStr(expiryStr)]) :
            strike \in {ParseFloatText(strikeStr)} })

parseOptionSymbol(symbol, rollsOver) ==
    IF ~Truthy(symbol) THEN JNull
    ELSE IF symbol.t # "str"
    THEN Throw(Err("TypeError", "symbol.split is not a function"))
    ELSE Only({ IF Len(parts) < 4 THEN JNull ELSE SymbolOfParts(parts, rollsOver) :
                parts \in {Split(symbol.s, "-")} })

(***************************************************************************)
(* The ticker normalizer.                                                  *)
(***************************************************************************)
\* The numeric fields of a record: the part of the ticker and the key each
\* is read from.
NumericFields ==
    [ mark_price    |-> <<"ticker", "mark_price">>,
      spot_price    |-> <<"ticker", "spot_price">>,
      bid_price     |-> <<"quotes", "best_bid">>,
      ask_price     |-> <<"quotes", "best_ask">>,
      bid_iv        |-> <<"quotes", "bid_iv">>,
      ask_iv        |-> <<"quotes", "ask_iv">>,
      bid_size      |-> <<"quotes", "bid_size">>,
      ask_size      |-> <<"quotes", "ask_size">>,
      open_interest |-> <<"ticker", "oi">>,
      volume        |-> <<"ticker", "volume">>,
      turnover_usd  |-> <<"ticker", "turnover_usd">>,
      delta         |-> <<"greeks", "delta">>,
      gamma         |-> <<"greeks", "gamma">>,
      rho           |-> <<"greeks", "rho">>,
      theta         |-> <<"greeks", "theta">>,
      vega          |-> <<"greeks", "vega">> ]

\* The source value of the numeric field k: ticker.<key>,
\* (ticker.quotes ?? {}).<key> or (ticker.greeks ?? {}).<key>.
SourceOf(ticker, k) ==
    LET from == NumericFields[k][1]
        key  == NumericFields[k][2]
    IN  IF from = "ticker" THEN Get(ticker, key)
        ELSE Get(Coalesce(Get(ticker, from), JObj(NoFields)), key)

\* parseFloat(v) || null
NumericField(v) == OrNull(parseFloat(v))

\* normalizeTicker from `if (!sym) return null` on.
RecordOf(ticker, sym) ==
    IF sym.t = "throw" THEN sym
    ELSE IF ~Truthy(sym) THEN JNull
    ELSE JObj([ symbol      |-> Get(ticker, "symbol"),
                product_id  |-> Get(ticker, "product_id"),
                asset       |-> sym.f.asset,
                option_type |-> sym.f.optionType,
                strike      |-> sym.f.strike,
                expiry_date |-> sym.f.expiryDate,
                expiry_ms   |-> sym.f.expiryMs,
                expiry_raw  |-> sym.f.expiryRaw ]
              @@ [k \in DOMAIN NumericFields |-> NumericField(SourceOf(ticker, k))])

normalizeTicker(ticker, rollsOver) ==
    IF Nullish(ticker)
    THEN Throw(Err("TypeError", "Cannot read properties of null (reading 'symbol')"))
    ELSE Only({ RecordOf(ticker, sym) :
                sym \in {parseOptionSymbol(Get(ticker, "symbol"), rollsOver)} })

(***************************************************************************)
(* The raw tickers the normalizer is given.                                *)
(***************************************************************************)
RawTickers ==
    { JObj([symbol |-> JStr("C-BTC-95200-200225"), product_id |-> JNum(101),
            mark_price |-> JStr("1250.50"), spot_price |-> JStr("95000"),
            oi |-> JStr("10"), volume |-> JNum(3), turnover_usd |-> JStr("1e3"),
            quotes |-> JObj([best_bid |-> JStr("1240"), best_ask |-> JStr("1260.25"),
                             bid_iv |-> JStr("0.55"), ask_iv |-> JStr("0.6"),
                             bid_size |-> JNum(2), ask_size |-> JNum(4)]),
            greeks |-> JObj([delta |-> JStr("0.5"), gamma |-> JStr("0.0001"),
                             rho |-> JStr("12abc"), theta |-> JStr("-12.5"),
                             vega |-> JStr(" 30")])]),
      JObj([symbol |-> JStr("P-BTC-95200-200225"), product_id |-> JNum(102),
            mark_price |-> JStr("0.00"), oi |-> JNum(0), volume |-> JNum(0),
            greeks |-> JObj([delta |-> JStr("0"), gamma |-> JStr("-0"),
                             vega |-> JStr("n/a")])]),
      JObj([symbol |-> JStr("C-BTC-90000-200225"), product_id |-> JNum(100),
            mark_price |-> JStr("5100"), oi |-> JNum(5), volume |-> JStr("1.5"),
            greeks |-> JObj([delta |-> JStr("0.75")])]),
      JObj([symbol |-> JStr("P-ETH-3500.5-300225"), oi |-> JStr("7"),
            volume |-> JNull, turnover_usd |-> JStr(""),
            quotes |-> JNull, greeks |-> JStr("none")]),
      JObj([symbol |-> JStr("C-ETH-3500-311299X"), oi |-> JStr("abc"),
            mark_price |-> JBool(TRUE), spot_price |-> JObj(NoFields)]),
      JObj([symbol |-> JStr("X-BTC-95200-200225"), oi |-> JNum(10)]),
      JObj([symbol |-> JStr("C-BTC-95200"), oi |-> JNum(10)]),
      JObj([symbol |-> JStr("C-BTC-abc-200225"), oi |-> JNum(10)]),
      JObj([symbol |-> JStr("C-BTC-95200-2002"), oi |-> JNum(10)]),
      JObj([symbol |-> JStr("C-BTC-95200-20ab25"), oi |-> JNum(10)]),
      JObj([oi |-> JNum(10)]),
      JObj([symbol |-> JNum(95200), oi |-> JNum(10)]),
      JNull }

RECURSIVE SeqsUpTo(_, _)
\* The sequences of at most n elements of S.
SeqsUpTo(S, n) ==
    IF n = 0 THEN {<<>>}
    ELSE LET shorter == SeqsUpTo(S, n - 1)
         IN  shorter \cup {Append(q, x) : q \in shorter, x \in S}

TickerLists == SeqsUpTo(RawTickers, MaxTickers)

MinOpenInterests == {JNum(0), JNum(5)}

(***************************************************************************)
(* normalizeOptionChain, one step per ticker of its loop.                  *)
(***************************************************************************)
\* Mutant: a record at the minimum is dropped too.
BelowMinimum_OrEqual(r, minOpenInterest) ==
    ~Less(minOpenInterest, Coalesce(r.f.open_interest, JNum(0)))

\* (r.open_interest ?? 0) < minOpenInterest
BelowMinimum(r, minOpenInterest) ==
    Less(Coalesce(r.f.open_interest, JNum(0)), minOpenInterest)

Chain_Invoke(tickers, minOpenInterest) ==
    /\ scenario = "normalize"
    /\ npc = "idle"
    /\ ntickers' = tickers
    /\ nmin' = minOpenInterest
    /\ nrecords' = <<>>
    /\ ni' = 1
    /\ npc' = "loop"
    /\ UNCHANGED <<dateRollsOver, nreturned, nthrown, nlog,
                   clientVars, getAllVars, getVars, pureVars>>

Chain_Iterate ==
    /\ npc = "loop"
    /\ ni <= Len(ntickers)
    /\ \E r \in {normalizeTicker(ntickers[ni], dateRollsOver)} :
          IF r.t = "throw"
          THEN /\ nthrown' = Append(nthrown, r.e)
               /\ npc' = "failed"
               /\ UNCHANGED <<ni, nrecords, nlog>>
          ELSE /\ nrecords' = IF ~Truthy(r) \/ BelowMinimum(r, nmin)
                              THEN nrecords ELSE Append(nrecords, r)
               /\ nlog' = Append(nlog, [ticker |-> ntickers[ni], record |-> r])
               /\ ni' = ni + 1
               /\ UNCHANGED <<npc, nthrown>>
    /\ UNCHANGED <<dateRollsOver, ntickers, nmin, nreturned,
                   clientVars, getAllVars, getVars, pureVars>>

Chain_Return ==
    /\ npc = "loop"
    /\ ni > Len(ntickers)
    /\ nreturned' = Returned(nrecords)
    /\ npc' = "done"
    /\ UNCHANGED <<dateRollsOver, ntickers, nmin, ni, nrecords, nthrown, nlog,
                   clientVars, getAllVars, getVars, pureVars>>

(***************************************************************************)
(* parseOptionSymbol, called on its own.                                   *)
(***************************************************************************)
TypeChars == {"C", "P", "X", "c", ""}

Assets == {"BTC", "ETH"}

StrikeTexts == {"95200", "3500.5", "0", ".5", "abc", "", "12abc", "Infinity"}

ExpiryTexts == {"200225", "311299", "290224", "010100", "300225", "319925",
                "20ab25", "2002", "", "311299X"}

\* The symbols parseOptionSymbol is given: strings of four parts, strings of
\* fewer or more parts, and what a ticker without a string symbol holds.
Symbols ==
    { JStr(ty \o "-" \o a \o "-" \o k \o "-" \o e) :
          ty \in TypeChars, a \in Assets, k \in StrikeTexts, e \in ExpiryTexts }
    \cup { JStr(""), JStr("C"), JStr("C-BTC"), JStr("C-BTC-95200"), JStr("---"),
           JStr("P-BTC-95200-200225-W"), Undefined, JNull, JNum(0), JNum(95200) }

ParseSymbol(symbol) ==
    /\ scenario = "codec"
    /\ apc = "idle"
    /\ ainput' = [symbol |-> symbol]
    /\ aoutput' = parseOptionSymbol(symbol, dateRollsOver)
    /\ apc' = "parsed"
    /\ UNCHANGED <<aoutput2, aheld, clientVars, getAllVars, getVars, normVars>>

(***************************************************************************)
(* formatExpiryRaw, called on its own and on a parsed symbol's expiryRaw.  *)
(***************************************************************************)
\* Mutant: the month is put before the day.
formatExpiryRaw_MonthFirst(expiryStr) ==
    IF ~Truthy(expiryStr) THEN expiryStr
    ELSE IF expiryStr.t # "str"
    THEN Throw(Err("TypeError", "expiryStr.slice is not a function"))
    ELSE IF Len(expiryStr.s) < 6 THEN expiryStr
    ELSE JStr(Slice(expiryStr.s, 2, 4) \o "-" \o Slice(expiryStr.s, 0, 2)
                  \o "-20" \o Slice(expiryStr.s, 4, 6))

\* A truthy value that is no string has no length (undefined < 6 is false)
\* and no slice.
formatExpiryRaw(expiryStr) ==
    IF ~Truthy(expiryStr) THEN expiryStr
    ELSE IF expiryStr.t # "str"
    THEN Throw(Err("TypeError", "expiryStr.slice is not a function"))
    ELSE IF Len(expiryStr.s) < 6 THEN expiryStr
    ELSE JStr(Slice(expiryStr.s, 0, 2) \o "-" \o Slice(expiryStr.s, 2, 4)
                  \o "-20" \o Slice(expiryStr.s, 4, 6))

\* The values formatExpiryRaw is given.
ExpiryRaws ==
    { JStr(e) : e \in ExpiryTexts } \cup { JStr("20022"), Undefined, JNull, JNum(200225) }

FormatExpiry ==
    /\ scenario = "codec"
    /\ apc = "idle"
    /\ \E expiryStr \in ExpiryRaws :
          /\ ainput' = [expiryStr |-> expiryStr]
          /\ aoutput' = formatExpiryRaw(expiryStr)
    /\ apc' = "formatted"
    /\ UNCHANGED <<aoutput2, aheld, clientVars, getAllVars, getVars, normVars>>

\* formatExpiryRaw(parsed.expiryRaw) of the symbol that has been parsed.
FormatParsedExpiry ==
    /\ scenario = "codec"
    /\ apc = "parsed"
    /\ aoutput.t = "obj"
    /\ aoutput2' = formatExpiryRaw(aoutput.f.expiryRaw)
    /\ apc' = "parsedFormatted"
    /\ UNCHANGED <<ainput, aoutput, aheld, clientVars, getAllVars, getVars, normVars>>

(***************************************************************************)
(* Array.prototype.sort with a comparator.                                 *)
(***************************************************************************)
\* The sign of a - b as a comparator's result: a difference that is NaN
\* (NaN on either side) is taken for 0 by the sort.
Difference(a, b) ==
    CASE a.t = "nan" \/ b.t = "nan" -> 0
      [] a.t = "ms" /\ b.t = "ms" ->
            IF a.days # b.days THEN (IF a.days < b.days THEN -1 ELSE 1)
            ELSE IF a.msOfDay < b.msOfDay THEN -1
            ELSE IF b.msOfDay < a.msOfDay THEN 1 ELSE 0
      [] OTHER -> IF Less(a, b) THEN -1 ELSE IF Less(b, a) THEN 1 ELSE 0

\* The comparator, given as the table c[i, j] of its results on the i-th and
\* the j-th of n elements, is a consistent one: being equal and being before
\* are transitive, and a is before b exactly if b is after a.
Consistent(c, n) ==
    \A i, j, k \in 1..n :
        /\ (c[i, j] = 0 /\ c[j, k] = 0) => c[i, k] = 0
        /\ (c[i, j] < 0 /\ c[j, k] < 0) => c[i, k] < 0
        /\ (c[i, j] < 0 /\ c[j, k] = 0) => c[i, k] < 0
        /\ (c[i, j] = 0 /\ c[j, k] < 0) => c[i, k] < 0
        /\ c[i, j] < 0 <=> c[j, i] > 0

\* Mutant: of two elements that compare equal the later one comes first.
Rank_TiesReversed(c, n, i) ==
    Cardinality({ j \in 1..n : c[j, i] < 0 \/ (c[j, i] = 0 /\ j > i) }) + 1

\* Where the i-th element ends up in a stable sort: after the elements that
\* are before it and after the earlier elements that compare equal to it.
Rank(c, n, i) ==
    Cardinality({ j \in 1..n : c[j, i] < 0 \/ (c[j, i] = 0 /\ j < i) }) + 1

StableSort(s, c) ==
    [k \in 1..Len(s) |-> s[CHOOSE i \in 1..Len(s) : Rank(c, Len(s), i) = k]]

Orders(n) ==
    { p \in [1..n -> 1..n] : \A i, j \in 1..n : i # j => p[i] # p[j] }

\* What sort can leave: the stable order for a consistent comparator, else
\* an order that depends on the implementation.
ArraySort(s, c) ==
    IF Consistent(c, Len(s)) THEN {StableSort(s, c)}
    ELSE { [k \in 1..Len(s) |-> s[p[k]]] : p \in Orders(Len(s)) }

(***************************************************************************)
(* groupByExpiry: the Map as the sequence of its entries <<key, rows>>, in *)
(* iteration order.                                                        *)
(***************************************************************************)
\* The entry of the key (NaN is the same key as NaN), or 0 if map.has(key) is
\* false.
EntryOf(entries, key) ==
    IF \E i \in 1..Len(entries) : entries[i][1] = key
    THEN CHOOSE i \in 1..Len(entries) : entries[i][1] = key
    ELSE 0

\* Mutant: the group of a key holds its latest row only.
AddRow_Overwrite(entries, row) ==
    LET key == row.f.expiry_ms
        i == EntryOf(entries, key)
    IN  IF i = 0 THEN Append(entries, <<key, <<row>>>>)
        ELSE [entries EXCEPT ![i] = <<key, <<row>>>>]

\* if (!map.has(key)) map.set(key, []); map.get(key).push(row)
AddRow(entries, row) ==
    LET key == row.f.expiry_ms
        i == EntryOf(entries, key)
    IN  IF i = 0 THEN Append(entries, <<key, <<row>>>>)
        ELSE [entries EXCEPT ![i] = <<key, Append(entries[i][2], row)>>]

RECURSIVE GroupRows(_, _, _)
\* The loop over records[i], records[i + 1], ...
GroupRows(entries, records, i) ==
    IF i > Len(records) THEN entries
    ELSE Only({ GroupRows(e, records, i + 1) : e \in {AddRow(entries, records[i])} })

\* (a, b) => a[0] - b[0]
ByKey(a, b) == Difference(a[1], b[1])

\* The maps groupByExpiry can return.
groupByExpiry(records) ==
    Only({ ArraySort(entries, [i, j \in 1..Len(entries) |->
                                   ByKey(entries[i], entries[j])]) :
           entries \in {GroupRows(<<>>, records, 1)} })

(***************************************************************************)
(* getExpiryOptions: the Map `seen` as the sequence of its entries.        *)
(***************************************************************************)
\* if (!seen.has(r.expiry_ms)) seen.set(r.expiry_ms, {...})
AddOption(seen, r) ==
    IF EntryOf(seen, r.f.expiry_ms) # 0 THEN seen
    ELSE Append(seen, <<r.f.expiry_ms,
                        JObj([expiryMs     |-> r.f.expiry_ms,
                              expiryDate   |-> r.f.expiry_date,
                              expiryRaw    |-> r.f.expiry_raw,
                              displayLabel |-> r.f.expiry_date])>>)

RECURSIVE SeenOptions(_, _, _)
\* The loop over records[i], records[i + 1], ...
SeenOptions(seen, records, i) ==
    IF i > Len(records) THEN seen
    ELSE Only({ SeenOptions(e, records, i + 1) : e \in {AddOption(seen, records[i])} })

\* (a, b) => a.expiryMs - b.expiryMs
ByExpiryMs(a, b) == Difference(a.f.expiryMs, b.f.expiryMs)

\* The lists getExpiryOptions can return.
getExpiryOptions(records) ==
    Only({ ArraySort([i \in 1..Len(seen) |-> seen[i][2]],
                     [i, j \in 1..Len(seen) |-> ByExpiryMs(seen[i][2], seen[j][2])]) :
           seen \in {SeenOptions(<<>>, records, 1)} })

(***************************************************************************)
(* buildStrikeSeriesForExpiry.                                             *)
(***************************************************************************)
\* Mutant: a row without a value of the metric is kept.
HasMetric_Always(r, metric) == TRUE

\* r[metric] != null
HasMetric(r, metric) == ~Nullish(Get(r, metric))

\* (a, b) => a.strike - b.strike
ByStrike(a, b) == Difference(a.f.strike, b.f.strike)

\* rows.filter(...).sort(...) for one option type: what the sort can leave.
SideRows(rows, optionType, metric) ==
    LET filtered == SelectSeq(rows, LAMBDA r : /\ r.f.option_type = JStr(optionType)
                                              /\ HasMetric(r, metric))
    IN  ArraySort(filtered, [i, j \in 1..Len(filtered) |->
                                ByStrike(filtered[i], filtered[j])])

\* The series pushed for one side, if it has rows.
SeriesOf(name, color, side, metric) ==
    IF Len(side) = 0 THEN <<>>
    ELSE << [name   |-> name,
             data   |-> [i \in 1..Len(side) |-> <<side[i].f.strike, Get(side[i], metric)>>],
             color  |-> color,
             marker |-> [enabled |-> Len(side) < 30]] >>

\* The lists of series buildStrikeSeriesForExpiry can return.
buildStrikeSeriesForExpiry(rows, metric) ==
    { SeriesOf("CE (Call)", "#26a69a", calls, metric)
          \o SeriesOf("PE (Put)", "#ef5350", puts, metric) :
      calls \in SideRows(rows, "call", metric), puts \in SideRows(rows, "put", metric) }

\* The metrics a strike chart is drawn of.
Metrics == {"open_interest", "mark_price", "delta"}

(***************************************************************************)
(* topInstrumentsForCandles.                                               *)
(***************************************************************************)
\* Mutant: the least open interest first.
ByOpenInterest_Ascending(a, b) ==
    Difference(Coalesce(a.f.open_interest, JNum(0)),
               Coalesce(b.f.open_interest, JNum(0)))

\* (a, b) => (b.open_interest ?? 0) - (a.open_interest ?? 0)
ByOpenInterest(a, b) ==
    Difference(Coalesce(b.f.open_interest, JNum(0)),
               Coalesce(a.f.open_interest, JNum(0)))

\* The lists topInstrumentsForCandles can return.
topInstrumentsForCandles(records, optionType, topN) ==
    LET filtered == SelectSeq(records, LAMBDA r : r.f.option_type = optionType)
    IN  { SubSeq(sorted, 1, Min(topN, Len(sorted))) :
              sorted \in ArraySort(filtered,
                                   [i, j \in 1..Len(filtered) |->
                                       ByOpenInterest(filtered[i], filtered[j])]) }

(***************************************************************************)
(* The aggregator's functions, called on records of the normalizer.        *)
(***************************************************************************)
\* The records normalizeTicker makes of the raw tickers.
NormalizedRecords(rollsOver) ==
    { r \in { normalizeTicker(t, rollsOver) : t \in RawTickers } : r.t = "obj" }

RecordLists(rollsOver) == SeqsUpTo(NormalizedRecords(rollsOver), MaxRecords)

OptionTypes == {JStr("call"), JStr("put")}

GroupByExpiry ==
    /\ scenario = "aggregate"
    /\ apc = "idle"
    /\ \E records \in RecordLists(dateRollsOver) :
          /\ ainput' = [records |-> records]
          /\ \E map \in groupByExpiry(records) : aoutput' = Returned(map)
    /\ apc' = "grouped"
    /\ UNCHANGED <<aoutput2, aheld, clientVars, getAllVars, getVars, normVars>>

TopInstruments ==
    /\ scenario = "aggregate"
    /\ apc = "idle"
    /\ \E records \in RecordLists(dateRollsOver), optionType \in OptionTypes,
          topN \in 0..MaxRecords :
          /\ ainput' = [records |-> records, optionType |-> optionType,
                        topN |-> topN]
          /\ \E top \in topInstrumentsForCandles(records, optionType, topN) :
                aoutput' = Returned(top)
    /\ apc' = "ranked"
    /\ UNCHANGED <<aoutput2, aheld, clientVars, getAllVars, getVars, normVars>>

ExpiryOptions ==
    /\ scenario = "aggregate"
    /\ apc = "idle"
    /\ \E records \in RecordLists(dateRollsOver) :
          /\ ainput' = [records |-> records]
          /\ \E options \in getExpiryOptions(records) : aoutput' = Returned(options)
    /\ apc' = "options"
    /\ UNCHANGED <<aoutput2, aheld, clientVars, getAllVars, getVars, normVars>>

StrikeSeries ==
    /\ scenario = "aggregate"
    /\ apc = "idle"
    /\ \E rows \in RecordLists(dateRollsOver), metric \in Metrics :
          /\ ainput' = [rows |-> rows, metric |-> metric]
          /\ \E series \in buildStrikeSeriesForExpiry(rows, metric) :
                aoutput' = Returned(series)
    /\ apc' = "series"
    /\ UNCHANGED <<aoutput2, aheld, clientVars, getAllVars, getVars, normVars>>

\* topInstrumentsForCandles called again, on what it returned.
TopInstruments_Again ==
    /\ scenario = "aggregate"
    /\ apc = "ranked"
    /\ \E topN \in 0..MaxRecords :
          /\ ainput' = [records |-> aoutput.v, optionType |-> ainput.optionType,
                        topN |-> topN]
          /\ \E top \in topInstrumentsForCandles(aoutput.v, ainput.optionType, topN) :
                aoutput2' = Returned(top)
    /\ apc' = "reranked"
    /\ UNCHANGED <<aoutput, aheld, clientVars, getAllVars, getVars, normVars>>

(***************************************************************************)
(* buildCandlestickSeries.                                                 *)
(***************************************************************************)
\* An array of values.
JArr(a) == [t |-> "arr", a |-> a]

\* Array.isArray(v)
IsArray(v) == v.t = "arr"

\* v[i] of a value that is not null or undefined: the element of an array,
\* undefined past its end and for a value without elements.
At(v, i) ==
    IF v.t = "arr" /\ i < Len(v.a) THEN v.a[i + 1] ELSE Undefined

\* v?.[i]
AtOptional(v, i) == IF Nullish(v) THEN Undefined ELSE At(v, i)

\* time * 1000 of unix seconds, as epoch milliseconds; null counts as 0 and
\* what is no number gives NaN.
Times1000(time) ==
    CASE time.t = "num"  -> EpochMs(time.n \div 86400, (time.n % 86400) * 1000)
      [] time.t = "null" -> EpochMs(0, 0)
      [] OTHER           -> NaN

\* v?.[i] ?? 0
VolumeAt(v, i) == Coalesce(AtOptional(v, i), JNum(0))

buildCandlestickSeries(chartData) ==
    IF \/ ~Truthy(chartData)
       \/ ~Truthy(Get(chartData, "t"))
       \/ ~IsArray(Get(chartData, "t"))
       \/ Len(Get(chartData, "t").a) = 0
    THEN JNull
    ELSE LET t == Get(chartData, "t").a
             o == Get(chartData, "o")
             h == Get(chartData, "h")
             l == Get(chartData, "l")
             c == Get(chartData, "c")
             v == Get(chartData, "v")
         IN  IF Nullish(o) \/ Nullish(h) \/ Nullish(l) \/ Nullish(c)
             THEN Throw(Err("TypeError",
                            "Cannot read properties of undefined (reading '0')"))
             ELSE JObj([ohlcData |->
                            JArr([n \in 1..Len(t) |->
                                     JArr(<<Times1000(t[n]), At(o, n - 1), At(h, n - 1),
                                            At(l, n - 1), At(c, n - 1)>>)]),
                        volData |->
                            JArr([n \in 1..Len(t) |->
                                     JArr(<<Times1000(t[n]), VolumeAt(v, n - 1)>>)])])

Nums(q) == JArr([i \in 1..Len(q) |-> JNum(q[i])])

\* The chart/history payloads: the spec's two candles, payloads without
\* candles, and payloads that lack some of the arrays or some of their values.
ChartPayloads ==
    { JObj([s |-> JStr("ok"), t |-> Nums(<<1700000000, 1700000060>>),
            o |-> Nums(<<10, 11>>), h |-> Nums(<<12, 12>>), l |-> Nums(<<9, 10>>),
            c |-> JArr(<<JNum(11), JFrac(105, 1)>>), v |-> Nums(<<100, 50>>)]),
      JObj([s |-> JStr("ok"), t |-> Nums(<<1700000000, 1700000060>>),
            o |-> Nums(<<10, 11>>), h |-> Nums(<<12, 12>>), l |-> Nums(<<9, 10>>),
            c |-> Nums(<<11, 10>>)]),
      JObj([s |-> JStr("ok"), t |-> Nums(<<1700000000, 1700000060>>),
            o |-> Nums(<<10, 11>>), h |-> Nums(<<12, 12>>), l |-> Nums(<<9, 10>>),
            c |-> Nums(<<11, 10>>), v |-> JArr(<<JNull>>)]),
      JObj([s |-> JStr("ok"), t |-> Nums(<<86399>>),
            o |-> Nums(<<0>>), h |-> Nums(<<12>>), l |-> JArr(<<>>),
            c |-> Nums(<<11>>), v |-> JNull]),
      JObj([s |-> JStr("ok"), t |-> Nums(<<1700000000>>), v |-> Nums(<<100>>)]),
      JObj([s |-> JStr("ok"), t |-> Nums(<<1700000000>>), o |-> Nums(<<10>>),
            h |-> Nums(<<12>>), l |-> Nums(<<9>>), c |-> JNull, v |-> Nums(<<100>>)]),
      JObj([s |-> JStr("no_data")]),
      JObj([s |-> JStr("ok"), t |-> JArr(<<>>), o |-> JArr(<<>>), h |-> JArr(<<>>),
            l |-> JArr(<<>>), c |-> JArr(<<>>), v |-> JArr(<<>>)]),
      JObj([s |-> JStr("ok"), t |-> JStr("1700000000"), o |-> JStr("10")]),
      JObj([s |-> JStr("ok"), t |-> JNull]),
      JObj([s |-> JStr("ok"), t |-> JNum(1700000000)]),
      JNull,
      Undefined }

(***************************************************************************)
(* recordsToCsv.                                                           *)
(***************************************************************************)
\* String(v), of the numbers that are no integers too.
StringOf(v) ==
    CASE v.t = "frac" ->
            LET abs  == IF v.m < 0 THEN 0 - v.m ELSE v.m
                frac == ToString(abs % Pow10(v.d))
            IN  (IF v.m < 0 THEN "-" ELSE "") \o ToString(abs \div Pow10(v.d)) \o "."
                    \o Repeat("0", v.d - Len(frac)) \o frac
      [] v.t = "inf" -> IF v.neg THEN "-Infinity" ELSE "Infinity"
      [] v.t = "nan" -> "NaN"
      [] OTHER -> JsString(v)

\* s.includes(ch) for one character.
Includes(s, ch) == \E i \in 1..Len(s) : SubSeq(s, i, i) = ch

RECURSIVE DoubleQuotes(_, _)
\* s.replace(/"/g, '""') of the characters from i on.
DoubleQuotes(s, i) ==
    IF i > Len(s) THEN ""
    ELSE (IF SubSeq(s, i, i) = "\"" THEN "\"\"" ELSE SubSeq(s, i, i))
             \o DoubleQuotes(s, i + 1)

RECURSIVE JoinFrom(_, _, _)
\* parts.join(sep) of the parts from i on.
JoinFrom(parts, sep, i) ==
    IF i > Len(parts) THEN ""
    ELSE IF i = Len(parts) THEN parts[i]
    ELSE parts[i] \o sep \o JoinFrom(parts, sep, i + 1)

Join(parts, sep) == JoinFrom(parts, sep, 1)

\* Mutant: the text is wrapped in quotes, its own quotes left single.
Quoted_NoDoubling(s) ==
    IF Includes(s, ",") \/ Includes(s, "\"") \/ Includes(s, "\n")
    THEN "\"" \o s \o "\""
    ELSE s

Quoted(s) ==
    IF Includes(s, ",") \/ Includes(s, "\"") \/ Includes(s, "\n")
    THEN "\"" \o DoubleQuotes(s, 1) \o "\""
    ELSE s

\* Mutant: a field without a value is written as the text of null.
CsvCell_NullText(v) ==
    Only({ Quoted(s) : s \in {StringOf(v)} })

\* The cell of one value.
CsvCell(v) ==
    IF Nullish(v) THEN ""
    ELSE Only({ Quoted(s) : s \in {StringOf(v)} })

headers ==
    <<"symbol", "product_id", "asset", "option_type", "strike",
      "expiry_date", "expiry_raw",
      "spot_price",
      "mark_price", "bid_price", "ask_price", "bid_size", "ask_size",
      "bid_iv", "ask_iv",
      "open_interest", "volume", "turnover_usd",
      "delta", "gamma", "theta", "vega", "rho">>

recordsToCsv(records) ==
    LET rows == [n \in 1..Len(records) |->
                    Only({ Join(cells, ",") :
                           cells \in {[k \in 1..Len(headers) |->
                                          CsvCell(Get(records[n], headers[k]))]} })]
    IN  Only({ Join(lines, "\n") : lines \in {<<Join(headers, ",")>> \o rows} })

\* Tickers whose symbol has a comma, a quote or a line break in it.
OddTickers ==
    { JObj([symbol |-> JStr("C-BT,C-95200-200225"), product_id |-> JStr("7,5"),
            oi |-> JStr("10"), mark_price |-> JStr("1250.50")]),
      JObj([symbol |-> JStr("P-B\"T\"C-3500.5-200225"), oi |-> JNum(3),
            greeks |-> JObj([theta |-> JStr("-12.5"), vega |-> JStr("0.05")])]),
      JObj([symbol |-> JStr("C-BTC-Infinity-200225\nW"), product_id |-> JNum(103)]),
      JObj([symbol |-> JStr("P-,\"\"-1-2\"0,225"), product_id |-> JStr("")]) }

\* The records that are exported.
CsvRecords(rollsOver) ==
    { r \in { normalizeTicker(t, rollsOver) :
              t \in OddTickers \cup { x \in RawTickers :
                                        Get(x, "product_id") \in {JNum(101), JNum(102)} } } :
          r.t = "obj" }

CsvRecordLists(rollsOver) == SeqsUpTo(CsvRecords(rollsOver), MaxRecords)

RecordsCsv ==
    /\ scenario = "export"
    /\ apc = "idle"
    /\ \E records \in CsvRecordLists(dateRollsOver) :
          /\ ainput' = [records |-> records]
          /\ aoutput' = JStr(recordsToCsv(records))
    /\ apc' = "recordsCsv"
    /\ UNCHANGED <<aoutput2, aheld, clientVars, getAllVars, getVars, normVars>>

BuildCandles ==
    /\ scenario = "export"
    /\ apc = "idle"
    /\ \E chartData \in ChartPayloads :
          /\ ainput' = [chartData |-> chartData]
          /\ aoutput' = buildCandlestickSeries(chartData)
    /\ apc' = "candles"
    /\ UNCHANGED <<aoutput2, aheld, clientVars, getAllVars, getVars, normVars>>

(***************************************************************************)
(* candlestickToCsv.                                                       *)
(***************************************************************************)
\* n in decimal, with zeros in front up to the width.
Pad(n, width) ==
    Only({ Repeat("0", width - Len(digits)) \o digits : digits \in {ToString(n)} })

\* The year, month and day of a day counted from 1970-01-01.
CivilFromDays(days) ==
    LET z   == days + 719468
        era == z \div 146097
        doe == z - era * 146097
        yoe == (doe - (doe \div 1460) + (doe \div 36524) - (doe \div 146096)) \div 365
        doy == doe - (365 * yoe + (yoe \div 4) - (yoe \div 100))
        mp  == (5 * doy + 2) \div 153
        d   == doy - ((153 * mp + 2) \div 5) + 1
        m   == IF mp < 10 THEN mp + 3 ELSE mp - 9
    IN  [y |-> yoe + era * 400 + (IF m <= 2 THEN 1 ELSE 0), m |-> m, d |-> d]

\* new Date(ms).toISOString(); an invalid date raises.
ToISOString(ms) ==
    IF ms.t # "ms" THEN Throw(Err("RangeError", "Invalid time value"))
    ELSE Only({ JStr(Pad(date.y, 4) \o "-" \o Pad(date.m, 2) \o "-" \o Pad(date.d, 2)
                     \o "T" \o Pad(ms.msOfDay \div 3600000, 2)
                     \o ":" \o Pad((ms.msOfDay \div 60000) % 60, 2)
                     \o ":" \o Pad((ms.msOfDay \div 1000) % 60, 2)
                     \o "." \o Pad(ms.msOfDay % 1000, 3) \o "Z") :
                date \in {CivilFromDays(ms.days)} })

\* Mutant: the value of the first candle, whatever the index.
CandleValue_First(values, i) == Coalesce(AtOptional(values, 0), JStr(""))

\* o?.[i] ?? ''
CandleValue(values, i) == Coalesce(AtOptional(values, i), JStr(""))

\* The text join writes for an element: nothing for null and undefined.
JoinText(v) == IF Nullish(v) THEN "" ELSE StringOf(v)

\* The row pushed for the candle i (from 0) of an item, or what is raised.
CandleRow(item, cd, i) ==
    Only({ IF dt.t = "throw" THEN dt
           ELSE JStr(Join([k \in 1..9 |->
                              JoinText(<<Get(item, "symbol"), Get(item, "option_type"),
                                         time, dt,
                                         CandleValue(Get(cd, "o"), i),
                                         CandleValue(Get(cd, "h"), i),
                                         CandleValue(Get(cd, "l"), i),
                                         CandleValue(Get(cd, "c"), i),
                                         CandleValue(Get(cd, "v"), i)>>[k])], ",")) :
           time \in {At(Get(cd, "t"), i)},
           dt \in {ToISOString(Times1000(At(Get(cd, "t"), i)))} })

\* The rows pushed for one item: none if it has no array of timestamps.
ItemRows(item) ==
    Only({ IF ~Truthy(cd) \/ ~Truthy(Get(cd, "t")) \/ ~IsArray(Get(cd, "t")) THEN <<>>
           ELSE [n \in 1..Len(Get(cd, "t").a) |-> CandleRow(item, cd, n - 1)] :
           cd \in {Get(item, "chartData")} })

RECURSIVE AllRows(_, _)
\* The rows of the items from n on.
AllRows(candlestickData, n) ==
    IF n > Len(candlestickData) THEN <<>>
    ELSE ItemRows(candlestickData[n]) \o AllRows(candlestickData, n + 1)

candleHeaders ==
    <<"symbol", "option_type", "timestamp_unix", "datetime_utc",
      "open", "high", "low", "close", "volume">>

candlestickToCsv(candlestickData) ==
    Only({ IF \E n \in 1..Len(rows) : rows[n].t = "throw"
           THEN rows[CHOOSE n \in 1..Len(rows) :
                         /\ rows[n].t = "throw"
                         /\ \A k \in 1..(n - 1) : rows[k].t # "throw"]
           ELSE JStr(Join(<<Join(candleHeaders, ",")>>
                              \o [n \in 1..Len(rows) |-> rows[n].s], "\n")) :
           rows \in {AllRows(candlestickData, 1)} })

Item(symbol, optionType, chartData) ==
    JObj([symbol |-> JStr(symbol), option_type |-> JStr(optionType),
          chartData |-> chartData])

\* The series that are exported: with and without candles, with arrays that
\* are missing or short, and with symbols that hold a comma or quotes.
CandleItems ==
    { Item("C-BTC-95200-200225", "call",
           JObj([s |-> JStr("ok"), t |-> Nums(<<1700000000, 1700000060>>),
                 o |-> Nums(<<10, 11>>), h |-> Nums(<<12, 12>>), l |-> Nums(<<9, 10>>),
                 c |-> JArr(<<JNum(11), JFrac(105, 1)>>), v |-> Nums(<<100, 50>>)])),
      Item("P-BTC-95200-200225", "put",
           JObj([s |-> JStr("ok"), t |-> Nums(<<951782400, 1700000060>>),
                 o |-> Nums(<<10, 11>>), h |-> Nums(<<12, 12>>), l |-> Nums(<<9, 10>>),
                 c |-> Nums(<<11, 10>>), v |-> JArr(<<JNull>>)])),
      Item("C-BT,C-95200-200225", "call",
           JObj([s |-> JStr("ok"), t |-> Nums(<<86399>>),
                 o |-> Nums(<<0>>), h |-> Nums(<<12>>), l |-> JArr(<<>>),
                 c |-> Nums(<<11>>), v |-> JNull])),
      Item("P-B\"T\"C-3500.5-200225", "put",
           JObj([s |-> JStr("ok"), t |-> Nums(<<1700000000>>), v |-> Nums(<<100>>)])),
      Item("P-ETH-3500.5-300225", "put", JObj([s |-> JStr("no_data")])),
      Item("C-ETH-3500-311299", "call",
           JObj([s |-> JStr("ok"), t |-> JArr(<<>>), o |-> JArr(<<>>)])),
      Item("C-ETH-3600-311299", "call",
           JObj([s |-> JStr("ok"), t |-> JStr("1700000000"), o |-> JStr("10")])),
      Item("P-ETH-3600-311299", "put", JNull) }

CandleItemLists == SeqsUpTo(CandleItems, MaxSeries)

CandlesCsv ==
    /\ scenario = "export"
    /\ apc = "idle"
    /\ \E candlestickData \in CandleItemLists :
          /\ ainput' = [candlestickData |-> candlestickData]
          /\ aoutput' = candlestickToCsv(candlestickData)
    /\ apc' = "candlesCsv"
    /\ UNCHANGED <<aoutput2, aheld, clientVars, getAllVars, getVars, normVars>>

(***************************************************************************)
(* getOptionProducts: what it does with the products _getAll resolved with. *)
(***************************************************************************)
\* The predicate of products.filter.
KeepsProduct(p, underlyingAssetSymbol) ==
    \/ Get(Get(p, "underlying_asset"), "symbol") = JStr(underlyingAssetSymbol)
    \/ Get(p, "contract_type") = JStr("call_options")
    \/ Get(p, "contract_type") = JStr("put_options")

\* The callback of then.
FilterProducts(products, underlyingAssetSymbol) ==
    SelectSeq(products, LAMBDA p : KeepsProduct(p, underlyingAssetSymbol))

Product(id, symbol, contractType, underlyingAsset) ==
    JObj([id |-> JNum(id), symbol |-> JStr(symbol), contract_type |-> JStr(contractType),
          state |-> JStr("live"), underlying_asset |-> underlyingAsset])

\* The products of the server: options of either asset, a product that is no
\* option, and one without an underlying asset.
Products ==
    { Product(1, "C-BTC-95200-200225", "call_options", JObj([symbol |-> JStr("BTC")])),
      Product(2, "P-BTC-95200-200225", "put_options", JObj([symbol |-> JStr("BTC")])),
      Product(3, "C-ETH-3500-200225", "call_options", JObj([symbol |-> JStr("ETH")])),
      Product(4, "P-ETH-3500-200225", "put_options", JObj([symbol |-> JStr("ETH")])),
      Product(5, "BTCUSD", "perpetual_futures", JObj([symbol |-> JStr("BTC")])),
      Product(6, "ETHUSD", "perpetual_futures", JObj([symbol |-> JStr("ETH")])),
      Product(7, "C-SOL-150-200225", "call_options", JNull) }

ProductLists == SeqsUpTo(Products, MaxProducts)

\* _getAll has resolved, and the callback of then filters the products.
GetOptionProducts_Then ==
    /\ scenario = "products"
    /\ apc = "idle"
    /\ \E underlyingAssetSymbol \in Calls, products \in ProductLists :
          /\ ainput' = [underlyingAssetSymbol |-> underlyingAssetSymbol,
                        products |-> products]
          /\ aoutput' = FilterProducts(products, underlyingAssetSymbol)
    /\ apc' = "products"
    /\ UNCHANGED <<aoutput2, aheld, clientVars, getAllVars, getVars, normVars>>

\* _getAll has raised, and so does getOptionProducts.
GetOptionProducts_Rejected ==
    /\ scenario = "products"
    /\ apc = "idle"
    /\ \E underlyingAssetSymbol \in Calls, status \in {500, 404} :
          /\ ainput' = [underlyingAssetSymbol |-> underlyingAssetSymbol,
                        products |-> Throw(Err("Error", "HTTP " \o ToString(status)))]
          /\ aoutput' = Throw(Err("Error", "HTTP " \o ToString(status)))
    /\ apc' = "productsFailed"
    /\ UNCHANGED <<aoutput2, aheld, clientVars, getAllVars, getVars, normVars>>

(***************************************************************************)
(* What the functions write.  The arrays of a call are kept by the name    *)
(* the code gives them; the parameter is one of them, and the others are   *)
(* made during the call.                                                   *)
(***************************************************************************)
\* const name = a, for an array a made by the call (a literal, filter, map,
\* slice, or a spread).
Alloc(heap, name, a) == (name :> a) @@ heap

\* name.push(v)
PushAt(heap, name, v) == [heap EXCEPT ![name] = Append(@, v)]

\* name.sort(comparator), which sorts the array in place; c is the table of
\* the comparator on the elements of the array.
SortAt(heap, name, c) ==
    { [heap EXCEPT ![name] = sorted] : sorted \in ArraySort(heap[name], c) }

RECURSIVE NormalizeFrom(_, _, _, _)
\* The loop of normalizeOptionChain from the ticker i on.
NormalizeFrom(heap, minOpenInterest, rollsOver, i) ==
    IF i > Len(heap.tickers) THEN heap
    ELSE Only({ IF r.t = "throw" THEN Alloc(heap, "thrown", <<r.e>>)
                ELSE NormalizeFrom(IF ~Truthy(r) \/ BelowMinimum(r, minOpenInterest)
                                   THEN heap ELSE PushAt(heap, "records", r),
                                   minOpenInterest, rollsOver, i + 1) :
                r \in {normalizeTicker(heap.tickers[i], rollsOver)} })

normalizeOptionChain_Writes(heap, minOpenInterest, rollsOver) ==
    {NormalizeFrom(Alloc(heap, "records", <<>>), minOpenInterest, rollsOver, 1)}

\* The Map and its entries are made by the call; [...map.entries()] is sorted.
groupByExpiry_Writes(heap) ==
    Only({ SortAt(h, "entries", [i, j \in 1..Len(h.entries) |->
                                     ByKey(h.entries[i], h.entries[j])]) :
           h \in { Alloc(Alloc(heap, "map", map), "entries", map) :
                   map \in {GroupRows(<<>>, heap.records, 1)} } })

\* Mutant: the parameter is sorted, and then filtered.
topInstrumentsForCandles_Writes_SortsParameter(heap, optionType) ==
    { Alloc(h, "filtered", SelectSeq(h.records, LAMBDA r : r.f.option_type = optionType)) :
      h \in SortAt(heap, "records", [i, j \in 1..Len(heap.records) |->
                                        ByOpenInterest(heap.records[i], heap.records[j])]) }

\* records.filter(...) is sorted; slice makes the array that is returned.
topInstrumentsForCandles_Writes(heap, optionType) ==
    Only({ SortAt(h, "filtered", [i, j \in 1..Len(h.filtered) |->
                                      ByOpenInterest(h.filtered[i], h.filtered[j])]) :
           h \in { Alloc(heap, "filtered",
                         SelectSeq(heap.records, LAMBDA r : r.f.option_type = optionType)) } })

\* [...seen.values()] is sorted.
getExpiryOptions_Writes(heap) ==
    Only({ SortAt(h, "values", [i, j \in 1..Len(h.values) |->
                                    ByExpiryMs(h.values[i], h.values[j])]) :
           h \in { Alloc(Alloc(heap, "seen", seen), "values",
                         [i \in 1..Len(seen) |-> seen[i][2]]) :
                   seen \in {SeenOptions(<<>>, heap.records, 1)} } })

\* rows.filter(...) of either side is sorted.
SideWrites(heap, name, optionType, metric) ==
    Only({ SortAt(h, name, [i, j \in 1..Len(h[name]) |-> ByStrike(h[name][i], h[name][j])]) :
           h \in { Alloc(heap, name,
                         SelectSeq(heap.rows, LAMBDA r : /\ r.f.option_type = JStr(optionType)
                                                        /\ HasMetric(r, metric))) } })

buildStrikeSeriesForExpiry_Writes(heap, metric) ==
    { Alloc(h, "series", SeriesOf("CE (Call)", "#26a69a", h.calls, metric)
                             \o SeriesOf("PE (Put)", "#ef5350", h.puts, metric)) :
      h \in UNION { SideWrites(hc, "puts", "put", metric) :
                    hc \in SideWrites(heap, "calls", "call", metric) } }

\* records.map(...) makes the rows.
recordsToCsv_Writes(heap) ==
    { Alloc(heap, "rows",
            [n \in 1..Len(heap.records) |->
                Only({ Join(cells, ",") :
                       cells \in {[k \in 1..Len(headers) |->
                                      CsvCell(Get(heap.records[n], headers[k]))]} })]) }

\* The rows are pushed to an array the call makes.
candlestickToCsv_Writes(heap) ==
    { Alloc(heap, "rows", AllRows(heap.candlestickData, 1)) }

\* The lists the caller holds: raw tickers, records, and series of candles.
HeldLists(rollsOver) ==
    { [of |-> "tickers", a |-> a] : a \in SeqsUpTo(RawTickers, MaxHeld) }
        \cup { [of |-> "records", a |-> a] :
               a \in SeqsUpTo(NormalizedRecords(rollsOver), MaxHeld) }
        \cup { [of |-> "candles", a |-> a] : a \in SeqsUpTo(CandleItems, MaxHeld) }

\* The caller comes to hold a list.
Hold ==
    /\ scenario = "frame"
    /\ apc = "idle"
    /\ aheld' \in HeldLists(dateRollsOver)
    /\ apc' = "held"
    /\ UNCHANGED <<ainput, aoutput, aoutput2, clientVars, getAllVars, getVars, normVars>>

\* A call on the list that is held: the first, or one more.
Calling ==
    /\ scenario = "frame"
    /\ apc \in {"held", "called"}
    /\ apc' = IF apc = "held" THEN "called" ELSE "calledAgain"
    /\ UNCHANGED <<aoutput2, clientVars, getAllVars, getVars, normVars>>

Held_NormalizeOptionChain ==
    /\ aheld.of = "tickers"
    /\ Calling
    /\ \E minOpenInterest \in MinOpenInterests :
          /\ ainput' = [fn |-> "normalizeOptionChain", tickers |-> aheld.a,
                        minOpenInterest |-> minOpenInterest]
          /\ \E h \in normalizeOptionChain_Writes("tickers" :> aheld.a, minOpenInterest,
                                                  dateRollsOver) :
                /\ aheld' = [aheld EXCEPT !.a = h.tickers]
                /\ aoutput' = IF "thrown" \in DOMAIN h THEN Throw(h.thrown[1])
                              ELSE Returned(h.records)

Held_GroupByExpiry ==
    /\ aheld.of = "records"
    /\ Calling
    /\ ainput' = [fn |-> "groupByExpiry", records |-> aheld.a]
    /\ \E h \in groupByExpiry_Writes("records" :> aheld.a) :
          /\ aheld' = [aheld EXCEPT !.a = h.records]
          /\ aoutput' = Returned(h.entries)

Held_TopInstruments ==
    /\ aheld.of = "records"
    /\ Calling
    /\ \E optionType \in OptionTypes, topN \in 0..MaxHeld :
          /\ ainput' = [fn |-> "topInstrumentsForCandles", records |-> aheld.a,
                        optionType |-> optionType, topN |-> topN]
          /\ \E h \in topInstrumentsForCandles_Writes("records" :> aheld.a, optionType) :
                /\ aheld' = [aheld EXCEPT !.a = h.records]
                /\ aoutput' = Returned(SubSeq(h.filtered, 1, Min(topN, Len(h.filtered))))

Held_ExpiryOptions ==
    /\ aheld.of = "records"
    /\ Calling
    /\ ainput' = [fn |-> "getExpiryOptions", records |-> aheld.a]
    /\ \E h \in getExpiryOptions_Writes("records" :> aheld.a) :
          /\ aheld' = [aheld EXCEPT !.a = h.records]
          /\ aoutput' = Returned(h.values)

Held_StrikeSeries ==
    /\ aheld.of = "records"
    /\ Calling
    /\ \E metric \in Metrics :
          /\ ainput' = [fn |-> "buildStrikeSeriesForExpiry", rows |-> aheld.a,
                        metric |-> metric]
          /\ \E h \in buildStrikeSeriesForExpiry_Writes("rows" :> aheld.a, metric) :
                /\ aheld' = [aheld EXCEPT !.a = h.rows]
                /\ aoutput' = Returned(h.series)

Held_RecordsCsv ==
    /\ aheld.of = "records"
    /\ Calling
    /\ ainput' = [fn |-> "recordsToCsv", records |-> aheld.a]
    /\ \E h \in recordsToCsv_Writes("records" :> aheld.a) :
          /\ aheld' = [aheld EXCEPT !.a = h.records]
          /\ aoutput' = JStr(Join(<<Join(headers, ",")>> \o h.rows, "\n"))

Held_CandlesCsv ==
    /\ aheld.of = "candles"
    /\ Calling
    /\ ainput' = [fn |-> "candlestickToCsv", candlestickData |-> aheld.a]
    /\ \E h \in candlestickToCsv_Writes("candlestickData" :> aheld.a) :
          /\ aheld' = [aheld EXCEPT !.a = h.candlestickData]
          /\ aoutput' = candlestickToCsv(aheld.a)

(***************************************************************************)
(* The specifications.                                                     *)
(***************************************************************************)
NoResponse == [kind |-> "none"]
NoCall == [path |-> "", params |-> NoFields]

vars == <<clientVars, getAllVars, getVars, normVars, pureVars>>

\* Nothing has been called yet.
Idle ==
    /\ pc = [c \in Calls |-> "idle"]
    /\ results = [c \in Calls |-> <<>>]
    /\ after = [c \in Calls |-> JNull]
    /\ inflight = [c \in Calls |-> <<>>]
    /\ response = [c \in Calls |-> NoResponse]
    /\ returned = [c \in Calls |-> NotReturned]
    /\ thrown = [c \in Calls |-> <<>>]
    /\ tracked = [c \in Calls |-> TRUE]
    /\ reqlog = [c \in Calls |-> <<>>]
    /\ resplog = [c \in Calls |-> <<>>]
    /\ gpc = "idle"
    /\ gcall = NoCall
    /\ ginflight = <<>>
    /\ gresponse = NoResponse
    /\ greturned = NotReturned
    /\ gthrown = <<>>
    /\ greqlog = <<>>
    /\ ntickers = <<>>
    /\ nmin = JNum(0)
    /\ npc = "idle"
    /\ ni = 1
    /\ nrecords = <<>>
    /\ nreturned = NotReturned
    /\ nthrown = <<>>
    /\ nlog = <<>>
    /\ apc = "idle"
    /\ ainput = NoFields
    /\ aoutput = NotReturned
    /\ aoutput2 = NotReturned
    /\ aheld = [of |-> "nothing", a |-> <<>>]

Init ==
    /\ scenario \in Scenarios
    /\ baseUrl \in {PROD_BASE_URL, TEST_BASE_URL \o "/"}
    /\ dateRollsOver = TRUE
    /\ Idle

Next ==
    \/ \E c \in Calls : GetAll_Invoke(c)
    \/ \E c \in Calls : GetAll_FetchSettles(c)
    \/ \E c \in Calls : GetAll_BodyRead(c)
    \/ \E call \in GetCalls : Get_Invoke(call)
    \/ Get_FetchSettles
    \/ Get_BodyRead

Spec == Init /\ [][Next]_vars

\* The two concurrent _getAll calls against the canned responses, where every
\* request is eventually answered and a resumed call runs on.
InitConcurrent == Init /\ scenario = "getAllConcurrent" /\ baseUrl = PROD_BASE_URL

NextGetAll ==
    \/ \E c \in Calls : GetAll_Invoke(c)
    \/ \E c \in Calls : GetAll_FetchSettles(c)
    \/ \E c \in Calls : GetAll_BodyRead(c)

FairSpec ==
    /\ InitConcurrent
    /\ [][NextGetAll]_vars
    /\ \A c \in Calls : WF_vars(GetAll_FetchSettles(c)) /\ WF_vars(GetAll_BodyRead(c))

\* One normalizeOptionChain call, on either kind of platform.
InitChain ==
    /\ scenario = "normalize"
    /\ baseUrl = PROD_BASE_URL
    /\ dateRollsOver \in BOOLEAN
    /\ Idle

NextChain ==
    \/ \E tickers \in TickerLists, minOpenInterest \in MinOpenInterests :
          Chain_Invoke(tickers, minOpenInterest)
    \/ Chain_Iterate
    \/ Chain_Return

SpecChain == InitChain /\ [][NextChain]_vars

\* One parseOptionSymbol call, perhaps followed by formatExpiryRaw on its
\* result, or one formatExpiryRaw call, on either kind of platform.
InitCodec ==
    /\ scenario = "codec"
    /\ baseUrl = PROD_BASE_URL
    /\ dateRollsOver \in BOOLEAN
    /\ Idle

NextCodec ==
    \/ \E symbol \in Symbols : ParseSymbol(symbol)
    \/ FormatExpiry
    \/ FormatParsedExpiry

SpecCodec == InitCodec /\ [][NextCodec]_vars

\* One call of groupByExpiry or of topInstrumentsForCandles, the latter
\* perhaps followed by a second one on its result, on either kind of platform.
InitAggregate ==
    /\ scenario = "aggregate"
    /\ baseUrl = PROD_BASE_URL
    /\ dateRollsOver \in BOOLEAN
    /\ Idle

NextAggregate ==
    \/ GroupByExpiry
    \/ TopInstruments
    \/ TopInstruments_Again
    \/ ExpiryOptions
    \/ StrikeSeries

SpecAggregate == InitAggregate /\ [][NextAggregate]_vars

\* One call of a function that builds what is charted or exported.
InitExport ==
    /\ scenario = "export"
    /\ baseUrl = PROD_BASE_URL
    /\ dateRollsOver \in BOOLEAN
    /\ Idle

NextExport ==
    \/ BuildCandles
    \/ RecordsCsv
    \/ CandlesCsv

SpecExport == InitExport /\ [][NextExport]_vars

\* getOptionProducts, from the moment _getAll has settled.
InitProducts ==
    /\ scenario = "products"
    /\ baseUrl \in {PROD_BASE_URL, PROD_BASE_URL \o "/"}
    /\ dateRollsOver = FALSE
    /\ Idle

NextProducts ==
    \/ GetOptionProducts_Then
    \/ GetOptionProducts_Rejected

SpecProducts == InitProducts /\ [][NextProducts]_vars

\* One list, passed to one function and then to another.
InitFrame ==
    /\ scenario = "frame"
    /\ baseUrl = PROD_BASE_URL
    /\ dateRollsOver \in BOOLEAN
    /\ Idle

NextFrame ==
    \/ Hold
    \/ Held_NormalizeOptionChain
    \/ Held_GroupByExpiry
    \/ Held_TopInstruments
    \/ Held_ExpiryOptions
    \/ Held_StrikeSeries
    \/ Held_RecordsCsv
    \/ Held_CandlesCsv

SpecFrame == InitFrame /\ [][NextFrame]_vars

(***************************************************************************)
(* What the claims say of a response, read off the response alone.         *)
(***************************************************************************)
Is2xx(r) == r.kind = "http" /\ r.status >= 200 /\ r.status <= 299

IsObject(r) == r.kind = "http" /\ r.body.k = "json" /\ r.body.v.t = "obj"

\* A successful page: 2xx, success = true, a list (or no result at all).
IsPage(r) ==
    /\ Is2xx(r) /\ IsObject(r)
    /\ "success" \in DOMAIN r.body.v.f /\ r.body.v.f.success = JBool(TRUE)
    /\ ("result" \in DOMAIN r.body.v.f => r.body.v.f.result.t \in {"null", "list"})

PageLength(r) ==
    IF "result" \in DOMAIN r.body.v.f /\ r.body.v.f.result.t = "list"
    THEN r.body.v.f.result.n ELSE 0

PageRecords(r) ==
    IF "result" \in DOMAIN r.body.v.f /\ r.body.v.f.result.t = "list"
    THEN [j \in 1..r.body.v.f.result.n |-> r.body.v.f.result.base + j] ELSE <<>>

\* meta.after of the page, "" when the page carries none (absent or null).
PageCursor(r) ==
    IF /\ "meta" \in DOMAIN r.body.v.f
       /\ r.body.v.f.meta.t = "obj"
       /\ "after" \in DOMAIN r.body.v.f.meta.f
       /\ r.body.v.f.meta.f.after.t = "str"
    THEN r.body.v.f.meta.f.after.s ELSE ""

HasCursor(r) ==
    /\ "meta" \in DOMAIN r.body.v.f
    /\ r.body.v.f.meta.t = "obj"
    /\ "after" \in DOMAIN r.body.v.f.meta.f
    /\ r.body.v.f.meta.f.after.t # "null"

FinalPage(r) == IsPage(r) /\ (~HasCursor(r) \/ PageLength(r) < 1000)

\* A failed request: a non-2xx status, or 2xx with success = false.
AppFailure(r) ==
    /\ Is2xx(r) /\ IsObject(r)
    /\ "success" \in DOMAIN r.body.v.f /\ r.body.v.f.success = JBool(FALSE)

HttpFailure(r) == r.kind = "http" /\ ~Is2xx(r)

FailedResponse(r) == HttpFailure(r) \/ AppFailure(r)

RECURSIVE ConcatPages(_, _)
\* The records of the pages log[i], log[i + 1], ..., in that order.
ConcatPages(log, i) ==
    IF i > Len(log) THEN <<>> ELSE PageRecords(log[i]) \o ConcatPages(log, i + 1)

RECURSIVE SumPageLengths(_, _)
SumPageLengths(log, i) ==
    IF i > Len(log) THEN 0 ELSE PageLength(log[i]) + SumPageLengths(log, i + 1)

Ended(c) == pc[c] \in {"done", "failed"}

\* The spec's three-page sequence: 1000, 1000 and 340 records, a cursor on each.
ThreePageExample(c) ==
    /\ tracked[c]
    /\ Len(resplog[c]) = 3
    /\ \A i \in 1..3 : IsPage(resplog[c][i]) /\ PageCursor(resplog[c][i]) # ""
    /\ PageLength(resplog[c][1]) = 1000
    /\ PageLength(resplog[c][2]) = 1000
    /\ PageLength(resplog[c][3]) = 340

(***************************************************************************)
(* C1..C9: the REST client.                                                *)
(***************************************************************************)
\* C1: the first page without a cursor (meta.after absent or null) or with
\* fewer than 1000 records is the last one requested: from its arrival on the
\* call has issued exactly as many requests as it has responses, also when
\* the short page carries a cursor; pages of 1000, 1000 and 340 records with
\* a cursor each make 3 requests and a result of 2340 records.
C1_FinalPageEndsPaging ==
    \A c \in Calls :
        /\ tracked[c] =>
              \A i \in 1..Len(resplog[c]) :
                  FinalPage(resplog[c][i]) =>
                      /\ Len(reqlog[c]) = i
                      /\ Len(resplog[c]) = i
                      /\ inflight[c] = <<>>
                      /\ pc[c] \in {"awaitBody", "done"}
        /\ (ThreePageExample(c) /\ pc[c] # "awaitBody") =>
              /\ pc[c] = "done"
              /\ Len(reqlog[c]) = 3
              /\ returned[c].t = "value"
              /\ Len(returned[c].v) = 2340

C1_Witness ==
    \E c \in Calls :
        /\ ThreePageExample(c)
        /\ pc[c] = "done"
        /\ Len(reqlog[c]) = 3
        /\ Len(returned[c].v) = 2340

\* C2: the first request of a call has no `after`, request i + 1 has the
\* cursor of response i as `after`, every request has page_size 1000, and a
\* call never has two requests outstanding nor a request ahead of the
\* response to the one before.
C2_RequestsFollowCursor ==
    \A c \in Calls :
        /\ Len(inflight[c]) <= 1
        /\ tracked[c] =>
              /\ Len(reqlog[c]) <= Len(resplog[c]) + 1
              /\ inflight[c] # <<>> =>
                    /\ Len(reqlog[c]) = Len(resplog[c]) + 1
                    /\ inflight[c][1] = reqlog[c][Len(reqlog[c])]
              /\ \A i \in 1..Len(reqlog[c]) :
                    LET q == reqlog[c][i].query IN
                    /\ reqlog[c][i].method = "GET"
                    /\ "page_size" \in DOMAIN q /\ q.page_size = "1000"
                    /\ IF i = 1 THEN "after" \notin DOMAIN q
                       ELSE /\ "after" \in DOMAIN q
                            /\ PageCursor(resplog[c][i - 1]) # ""
                            /\ q.after = PageCursor(resplog[c][i - 1])

C2_Witness ==
    \E c \in Calls :
        /\ tracked[c]
        /\ Len(reqlog[c]) = 3
        /\ inflight[c] # <<>>
        /\ reqlog[c][2].query.after # reqlog[c][3].query.after
        /\ reqlog[c][3].query.after = PageCursor(resplog[c][2])

\* C3: the list a call returns is the concatenation, in request order, of the
\* pages it received, repeated records included; its length is the sum of the
\* page lengths.
C3_ResultIsConcatenation ==
    \A c \in Calls :
        (tracked[c] /\ pc[c] = "done") =>
            /\ returned[c] = Returned(ConcatPages(resplog[c], 1))
            /\ Len(returned[c].v) = SumPageLengths(resplog[c], 1)

C3_Witness ==
    \E c \in Calls :
        /\ tracked[c] /\ pc[c] = "done"
        /\ Len(resplog[c]) = 3
        /\ PageRecords(resplog[c][1]) # PageRecords(resplog[c][2])
        /\ PageRecords(resplog[c][1]) = PageRecords(resplog[c][3])
        /\ Len(returned[c].v) = 3 * PAGE_SIZE + 1

\* C4: a failed page request (non-2xx, or 2xx with success = false) ends the
\* call with exactly one error: no request follows it and nothing is
\* returned, whatever the earlier pages put into `results`.
C4_FailureAborts ==
    \A c \in Calls :
        /\ Len(thrown[c]) <= 1
        /\ (pc[c] = "failed") <=> (Len(thrown[c]) = 1)
        /\ pc[c] = "failed" => returned[c] = NotReturned /\ inflight[c] = <<>>
        /\ (response[c] # NoResponse /\ FailedResponse(response[c])) =>
              /\ inflight[c] = <<>>
              /\ returned[c] = NotReturned
              /\ pc[c] \in {"awaitBody", "failed"}
        /\ tracked[c] =>
              \A i \in 1..Len(resplog[c]) :
                  FailedResponse(resplog[c][i]) =>
                      Len(resplog[c]) = i /\ Len(reqlog[c]) = i

C4_Witness ==
    \E c \in Calls :
        /\ pc[c] = "failed"
        /\ tracked[c]
        /\ Len(resplog[c]) = 3
        /\ AppFailure(resplog[c][3])
        /\ Len(results[c]) = 2 * PAGE_SIZE
        /\ returned[c] = NotReturned
        /\ Len(thrown[c]) = 1

\* A response after which the loop asks for one more page: a page of at
\* least 1000 records with a non-empty cursor.
ContinuesPaging(r) == IsPage(r) /\ PageLength(r) >= 1000 /\ PageCursor(r) # ""

\* C5 as claimed: with every request answered, every invoked call ends (DONE
\* or an error), whatever the server answers.
C5_AlwaysEnds ==
    \A c \in Calls : (pc[c] = "awaitFetch") ~> Ended(c)

\* C5, amended: with every request answered, a call ends once the server
\* answers one of its requests with anything but a full page carrying a
\* cursor; after a full page with a cursor it asks for the next page.
C5_EndsWhenServerStopsPaging ==
    /\ \A c \in Calls :
          (pc[c] = "awaitBody" /\ ~ContinuesPaging(response[c])) ~> Ended(c)
    /\ [][\A c \in Calls :
             (pc[c] = "awaitBody" /\ ContinuesPaging(response[c]) /\ pc'[c] # pc[c])
                 => (pc'[c] = "awaitFetch" /\ Len(inflight'[c]) = 1)]_vars

C5_Witness ==
    \E c \in Calls :
        /\ pc[c] = "done"
        /\ ~tracked[c]
        /\ ~ContinuesPaging(response[c])

\* C6: with two calls running concurrently, in every interleaving each call
\* accumulates and returns the pages of its own responses only, in order, and
\* the cursor it holds and sends is one the server gave to that call.
C6_CallsAreIsolated ==
    scenario = "getAllConcurrent" =>
        \A c \in Calls :
            /\ after[c] = JNull \/ (after[c].t = "str" /\ after[c].s \in Cursors(c))
            /\ \A i \in 1..Len(inflight[c]) :
                  "after" \in DOMAIN inflight[c][i].query =>
                      /\ inflight[c][i].query.after \in Cursors(c)
                      /\ inflight[c][i].query.after = PageCursor(response[c])
            /\ tracked[c] =>
                  /\ pc[c] = "awaitBody" =>
                        results[c] = ConcatPages(SubSeq(resplog[c], 1, Len(resplog[c]) - 1), 1)
                  /\ pc[c] = "awaitFetch" => results[c] = ConcatPages(resplog[c], 1)
                  /\ pc[c] = "done" =>
                        /\ results[c] = ConcatPages(resplog[c], 1)
                        /\ returned[c] = Returned(ConcatPages(resplog[c], 1))

C6_Witness ==
    /\ scenario = "getAllConcurrent"
    /\ pc["BTC"] = "awaitFetch" /\ Len(reqlog["BTC"]) = 2 /\ tracked["BTC"]
    /\ inflight["BTC"][1].query.after \in Cursors("BTC")
    /\ pc["ETH"] = "done" /\ Len(resplog["ETH"]) = 2 /\ tracked["ETH"]
    /\ Len(returned["ETH"].v) = PAGE_SIZE + 340
    /\ results["BTC"] # <<>>

\* The error a call raised for the response it holds.
GetAllFailedOn(c) == pc[c] = "failed" /\ response[c] # NoResponse /\ Len(thrown[c]) = 1

GetFailedOn == gpc = "failed" /\ gresponse # NoResponse /\ Len(gthrown) = 1

\* C7: the error for a 2xx payload with success = false carries the HTTP
\* status and the request path, as the error for a non-2xx status does, and
\* no more of the error payload than a short excerpt (at most 220 characters).
CarriesStatusPathExcerpt(msg, status, path) ==
    /\ Contains(msg, ToString(status))
    /\ Contains(msg, path)
    /\ Len(msg) <= Len("HTTP " \o ToString(status) \o " for " \o path \o " ()") + 220

C7_AppErrorCarriesStatus ==
    /\ \A c \in Calls :
          (GetAllFailedOn(c) /\ AppFailure(response[c])) =>
              CarriesStatusPathExcerpt(thrown[c][1].message, response[c].status, GetAllPath)
    /\ (GetFailedOn /\ AppFailure(gresponse)) =>
          CarriesStatusPathExcerpt(gthrown[1].message, gresponse.status, gcall.path)

\* The detail C8 describes, in its order: the string error (with the message),
\* else the error code, else the non-JSON body collapsed and clipped to 220
\* characters, else nothing.
ClaimedDetail(body) ==
    LET obj == body.k = "json" /\ body.v.t = "obj" IN
    IF obj /\ "error" \in DOMAIN body.v.f /\ body.v.f.error.t = "str"
    THEN " (" \o body.v.f.error.s
              \o (IF "message" \in DOMAIN body.v.f
                  THEN ": " \o body.v.f.message.s ELSE "") \o ")"
    ELSE IF /\ obj /\ "error" \in DOMAIN body.v.f /\ body.v.f.error.t = "obj"
            /\ "code" \in DOMAIN body.v.f.error.f
    THEN " (" \o body.v.f.error.f.code.s \o ")"
    ELSE IF body.k = "text" /\ body.s # ""
    THEN " (" \o Slice0(Trim(CollapseSpaces(body.s)), 220) \o ")"
    ELSE ""

ClaimedHttpError(r, path) ==
    "HTTP " \o ToString(r.status) \o " for " \o path \o ClaimedDetail(r.body)

\* C8: the error for a non-2xx response is "HTTP <status> for <path>" followed
\* by the detail chosen in the claimed order.
C8_HttpErrorDetail ==
    /\ \A c \in Calls :
          (GetAllFailedOn(c) /\ HttpFailure(response[c])) =>
              thrown[c][1].message = ClaimedHttpError(response[c], GetAllPath)
    /\ (GetFailedOn /\ HttpFailure(gresponse)) =>
          gthrown[1].message = ClaimedHttpError(gresponse, gcall.path)

\* C9: _get sends exactly one GET, without paging parameters, also when the
\* response carries a cursor; it returns payload.result (the empty list when
\* there is none) for a successful response and raises, returning nothing,
\* for a failed one.
C9_GetIsOneRequest ==
    /\ Len(greqlog) <= 1 /\ Len(ginflight) <= 1
    /\ gpc # "idle" =>
          /\ Len(greqlog) = 1
          /\ greqlog[1].method = "GET"
          /\ {"after", "page_size"} \cap DOMAIN greqlog[1].query = {}
    /\ gpc \in {"done", "failed"} => ginflight = <<>>
    /\ gpc = "done" =>
          /\ Is2xx(gresponse) /\ IsObject(gresponse) /\ ~AppFailure(gresponse)
          /\ gthrown = <<>>
          /\ greturned.t = "value"
          /\ greturned.v = IF "result" \in DOMAIN gresponse.body.v.f
                              /\ gresponse.body.v.f.result.t # "null"
                           THEN gresponse.body.v.f.result
                           ELSE JList(0, 0)
    /\ gpc = "failed" => greturned = NotReturned /\ Len(gthrown) = 1
    /\ (gpc # "awaitBody" /\ gresponse # NoResponse /\ FailedResponse(gresponse)) =>
          gpc = "failed"

C9_Witness ==
    /\ gpc = "done"
    /\ Len(greqlog) = 1
    /\ IsPage(gresponse) /\ PageCursor(gresponse) # ""
    /\ PageLength(gresponse) = PAGE_SIZE
    /\ greturned.v = JList(0, PAGE_SIZE)

\* A source value is numeric when it is there and its lenient parse is a number.
IsNumericSource(v) == ~Nullish(v) /\ ~IsNaN(parseFloat(v))

\* C10: in every record normalizeTicker produced, a numeric field is the
\* no-value marker only if its source is absent or non-numeric, and a source
\* that is zero is kept as 0.
C10_ZeroIsKept ==
    \A i \in 1..Len(nlog) :
        LET t == nlog[i].ticker
            r == nlog[i].record
        IN  Truthy(r) =>
                \A k \in DOMAIN NumericFields :
                    /\ r.f[k] = JNull => ~IsNumericSource(SourceOf(t, k))
                    /\ parseFloat(SourceOf(t, k)) = JNum(0) => r.f[k] = JNum(0)

(***************************************************************************)
(* What the claims say of a symbol, read off its text.                     *)
(***************************************************************************)
\* The text begins, after white space and a sign, as a number does.
BeginsNumber(text) ==
    \E i \in 1..Len(text) :
        /\ \A j \in 1..(i - 1) : IsSpace(CharAt(text, j))
        /\ LET k == IF CharAt(text, i) \in {"+", "-"} THEN i + 1 ELSE i
           IN  \/ IsDigit(CharAt(text, k))
               \/ CharAt(text, k) = "." /\ IsDigit(CharAt(text, k + 1))
               \/ SubSeq(text, k, Min(Len(text), k + 7)) = "Infinity"

\* The symbol is one of those C14 lists.
Malformed(symbol) ==
    \/ Nullish(symbol)
    \/ /\ symbol.t = "str"
       /\ LET parts == Split(symbol.s, "-")
          IN  \/ symbol.s = ""
              \/ Len(parts) < 4
              \/ parts[1] \notin {"C", "P"}
              \/ ~BeginsNumber(parts[3])
              \/ Len(parts[4]) < 6

OptionSymbolFields ==
    {"optionType", "asset", "strike", "expiryDate", "expiryMs", "expiryRaw"}

\* C14: for a symbol string with fewer than 4 parts, a first part other than
\* C or P, a third part that is no number or a fourth part shorter than 6,
\* and for an empty or absent symbol, parseOptionSymbol returns null without
\* raising; for a string it returns null or an object with all six fields.
C14_MalformedSymbolIsNull ==
    (apc = "parsed" /\ (Nullish(ainput.symbol) \/ ainput.symbol.t = "str")) =>
        /\ aoutput.t \in {"null", "obj"}
        /\ Malformed(ainput.symbol) => aoutput = JNull
        /\ aoutput.t = "obj" => DOMAIN aoutput.f = OptionSymbolFields

C14_Witness ==
    /\ apc = "parsed"
    /\ ainput.symbol = JStr("P-ETH-3500.5-2002")
    /\ aoutput = JNull

\* The numbers the numeric strike texts write.
StrikeValues ==
    [k \in {"95200", "3500.5", "0", ".5"} |->
        CASE k = "95200"  -> JNum(95200)
          [] k = "3500.5" -> JFrac(35005, 1)
          [] k = "0"      -> JNum(0)
          [] k = ".5"     -> JFrac(5, 1)]

\* The days from 1970-01-01 to the first of January of the year y >= 1970.
DaysBeforeYear(y) ==
    LET LeapYearsUpTo(n) == (n \div 4) - (n \div 100) + (n \div 400)
    IN  365 * (y - 1970) + LeapYearsUpTo(y - 1) - LeapYearsUpTo(1969)

RECURSIVE DaysBeforeMonth(_, _)
DaysBeforeMonth(y, m) ==
    IF m = 1 THEN 0 ELSE DaysBeforeMonth(y, m - 1) + DaysInMonth(y, m - 1)

\* The calendar date the six digits DDMMYY write, and whether there is one.
DateOf(e) ==
    [y |-> 2000 + DigitsRange(e, 5, 6), m |-> DigitsRange(e, 3, 4),
     d |-> DigitsRange(e, 1, 2)]

IsCalendarDate(e) ==
    /\ Len(e) = 6 /\ AllDigits(e)
    /\ DateOf(e).m \in 1..12
    /\ DateOf(e).d \in 1..DaysInMonth(DateOf(e).y, DateOf(e).m)

DayNumber(e) ==
    DaysBeforeYear(DateOf(e).y) + DaysBeforeMonth(DateOf(e).y, DateOf(e).m)
        + DateOf(e).d - 1

\* The date of e comes before the date of f.
Earlier(e, f) ==
    LET a == DateOf(e)
        b == DateOf(f)
    IN  \/ a.y < b.y
        \/ a.y = b.y /\ a.m < b.m
        \/ a.y = b.y /\ a.m = b.m /\ a.d < b.d

\* a < b for two epoch times.
MsLess(a, b) ==
    /\ a.t = "ms" /\ b.t = "ms"
    /\ a.days < b.days \/ (a.days = b.days /\ a.msOfDay < b.msOfDay)

\* The symbol has the form {C|P}-{ASSET}-{STRIKE}-{DDMMYY}, the strike a
\* number and the digits a calendar date.
WellFormed(symbol) ==
    /\ symbol.t = "str"
    /\ LET parts == Split(symbol.s, "-")
       IN  /\ Len(parts) = 4
           /\ parts[1] \in {"C", "P"}
           /\ parts[3] \in DOMAIN StrikeValues
           /\ IsCalendarDate(parts[4])

\* C15: for a well-formed symbol parseOptionSymbol returns call for C and put
\* for P, the asset part, the strike the strike part writes, expiryDate
\* 20YY-MM-DD of the digits, and expiryMs the epoch time of that date at
\* 08:00:00 UTC; of two well-formed symbols the one with the earlier date has
\* the smaller expiryMs.
C15_WellFormedSymbolParses ==
    (apc = "parsed" /\ WellFormed(ainput.symbol)) =>
        LET parts == Split(ainput.symbol.s, "-")
            e     == parts[4]
        IN  /\ aoutput.t = "obj"
            /\ aoutput.f.optionType = JStr(IF parts[1] = "C" THEN "call" ELSE "put")
            /\ aoutput.f.asset = JStr(parts[2])
            /\ aoutput.f.strike = StrikeValues[parts[3]]
            /\ aoutput.f.expiryDate =
                   JStr("20" \o SubSeq(e, 5, 6) \o "-" \o SubSeq(e, 3, 4)
                             \o "-" \o SubSeq(e, 1, 2))
            /\ aoutput.f.expiryMs = EpochMs(DayNumber(e), 8 * 60 * 60 * 1000)
            /\ \A f \in {x \in ExpiryTexts : IsCalendarDate(x)} :
                   LET other == parseOptionSymbol(JStr("C-BTC-1-" \o f), dateRollsOver)
                   IN  Earlier(e, f) <=> MsLess(aoutput.f.expiryMs, other.f.expiryMs)

C15_Witness ==
    /\ apc = "parsed"
    /\ ainput.symbol = JStr("P-ETH-3500.5-290224")
    /\ aoutput.t = "obj"
    /\ aoutput.f.expiryDate = JStr("2024-02-29")
    /\ aoutput.f.expiryMs.days = 19782

\* C16: every non-null result of parseOptionSymbol has an expiryRaw of
\* exactly 6 digits, a finite strike that is not negative, and an optionType
\* that is call or put.
C16_OptionSymbolInvariant ==
    (apc = "parsed" /\ aoutput.t = "obj") =>
        /\ Len(aoutput.f.expiryRaw.s) = 6 /\ AllDigits(aoutput.f.expiryRaw.s)
        /\ aoutput.f.strike.t \in {"num", "frac"}
        /\ ~Less(aoutput.f.strike, JNum(0))
        /\ aoutput.f.optionType \in {JStr("call"), JStr("put")}

(***************************************************************************)
(* What the claims say of a batch of tickers.                              *)
(***************************************************************************)
\* The ticker's symbol can be parsed.
Parseable(ticker) ==
    /\ ticker.t = "obj"
    /\ "symbol" \in DOMAIN ticker.f
    /\ ticker.f.symbol.t = "str"
    /\ ~Malformed(ticker.f.symbol)

RecordFields ==
    {"symbol", "product_id", "asset", "option_type", "strike", "expiry_date",
     "expiry_ms", "expiry_raw"} \cup DOMAIN NumericFields

\* C11: normalizeTicker never raises; it returns null for a ticker whose
\* symbol cannot be parsed and a flat record for any other, whether or not
\* quotes and greeks are there, and a numeric field whose source is absent or
\* no number is null; no numeric field is 0 or NaN.
C11_NormalizeTickerIsTotal ==
    /\ nthrown = <<>>
    /\ \A i \in 1..Len(nlog) :
          LET t == nlog[i].ticker
              r == nlog[i].record
          IN  IF ~Parseable(t) THEN r = JNull
              ELSE /\ r.t = "obj"
                   /\ DOMAIN r.f = RecordFields
                   /\ \A k \in DOMAIN NumericFields :
                         /\ ~IsNumericSource(SourceOf(t, k)) => r.f[k] = JNull
                         /\ r.f[k] # JNum(0) /\ ~IsNaN(r.f[k])

\* The open interest of a record, a missing one counted as 0.
OpenInterest(r) == IF r.f.open_interest = JNull THEN JNum(0) ELSE r.f.open_interest

RECURSIVE Retained(_, _, _)
\* The records of log[i], log[i + 1], ... that are there and whose open
\* interest is at least min, in that order.
Retained(log, i, min) ==
    IF i > Len(log) THEN <<>>
    ELSE (IF log[i].record # JNull /\ ~Less(OpenInterest(log[i].record), min)
          THEN <<log[i].record>> ELSE <<>>) \o Retained(log, i + 1, min)

\* The spec's scenario: the call and the put at 95200, minOpenInterest = 5.
TwoTickerScenario ==
    /\ Len(ntickers) = 2
    /\ Get(ntickers[1], "symbol") = JStr("C-BTC-95200-200225")
    /\ Get(ntickers[1], "oi") = JStr("10")
    /\ Get(ntickers[2], "symbol") = JStr("P-BTC-95200-200225")
    /\ Get(ntickers[2], "oi") = JNum(0)
    /\ nmin = JNum(5)

\* C12: normalizeOptionChain returns, in input order, exactly the records of
\* the tickers whose symbol parses and whose open interest (a missing one
\* counted as 0) is at least min; with min = 0 no record is dropped for its
\* missing open interest, with min > 0 every retained record has an open
\* interest of at least min; of the call (oi 10) and the put (oi 0) at 95200
\* with min = 5 only the call is retained, strike 95200, expiry 2025-02-20.
C12_ChainKeepsRecordsAtOrAboveMin ==
    npc = "done" =>
        /\ Len(nlog) = Len(ntickers)
        /\ \A i \in 1..Len(nlog) :
              /\ nlog[i].ticker = ntickers[i]
              /\ nlog[i].record # JNull <=> Parseable(ntickers[i])
        /\ nreturned = Returned(Retained(nlog, 1, nmin))
        /\ nmin = JNum(0) =>
              \A i \in 1..Len(nlog) :
                  (nlog[i].record # JNull /\ nlog[i].record.f.open_interest = JNull) =>
                      \E j \in 1..Len(nreturned.v) : nreturned.v[j] = nlog[i].record
        /\ Less(JNum(0), nmin) =>
              \A j \in 1..Len(nreturned.v) :
                  /\ nreturned.v[j].f.open_interest # JNull
                  /\ ~Less(nreturned.v[j].f.open_interest, nmin)
        /\ TwoTickerScenario =>
              /\ Len(nreturned.v) = 1
              /\ nreturned.v[1].f.symbol = JStr("C-BTC-95200-200225")
              /\ nreturned.v[1].f.strike = JNum(95200)
              /\ nreturned.v[1].f.expiry_date = JStr("2025-02-20")

C12_Witness ==
    /\ npc = "done"
    /\ TwoTickerScenario
    /\ Len(nreturned.v) = 1
    /\ nreturned.v[1].f.option_type = JStr("call")

\* C13: for every list of raw tickers normalizeOptionChain completes without
\* raising, skips each ticker whose symbol cannot be parsed, and returns the
\* record of every other ticker that passes the open-interest filter.
C13_MalformedSymbolNeverAborts ==
    /\ npc # "failed"
    /\ nthrown = <<>>
    /\ npc = "done" =>
          /\ \A i \in 1..Len(nlog) : ~Parseable(ntickers[i]) => nlog[i].record = JNull
          /\ nreturned = Returned(Retained(nlog, 1, nmin))

(***************************************************************************)
(* What the claims say of the aggregator.                                  *)
(***************************************************************************)
\* C17: the keys of the map groupByExpiry returns are pairwise distinct and,
\* in iteration order (the order StrikeChart lists the entries in), strictly
\* ascending as numbers, for every list of records of the normalizer.
C17_KeysStrictlyAscending ==
    apc = "grouped" =>
        LET entries == aoutput.v
        IN  /\ \A i, j \in 1..Len(entries) : i # j => entries[i][1] # entries[j][1]
            /\ \A i \in 1..(Len(entries) - 1) :
                  MsLess(entries[i][1], entries[i + 1][1])

\* The records of the list whose expiry_ms is the key, in the list's order.
RowsOfKey(records, key) == SelectSeq(records, LAMBDA r : r.f.expiry_ms = key)

\* C18: groupByExpiry partitions its input: no group is empty, every row of a
\* group has the group's key as its expiry_ms, no two groups share a key,
\* every record's key has a group, and a group holds exactly the records of
\* its key, each as often as the input does and in the input's order.
C18_GroupsPartitionInput ==
    apc = "grouped" =>
        LET entries == aoutput.v
            records == ainput.records
        IN  /\ \A i \in 1..Len(entries) :
                  /\ entries[i][2] # <<>>
                  /\ \A k \in 1..Len(entries[i][2]) :
                        entries[i][2][k].f.expiry_ms = entries[i][1]
                  /\ entries[i][2] = RowsOfKey(records, entries[i][1])
            /\ \A i, j \in 1..Len(entries) : i # j => entries[i][1] # entries[j][1]
            /\ \A n \in 1..Len(records) :
                  \E i \in 1..Len(entries) : entries[i][1] = records[n].f.expiry_ms

\* Two different records of one expiry, a record of another expiry between
\* them, have been grouped.
C18_Witness ==
    /\ apc = "grouped"
    /\ Len(ainput.records) = 3
    /\ ainput.records[1] # ainput.records[3]
    /\ ainput.records[1].f.expiry_ms = ainput.records[3].f.expiry_ms
    /\ ainput.records[1].f.expiry_ms # ainput.records[2].f.expiry_ms
    /\ Len(aoutput.v) = 2
    /\ \E i \in 1..2 : aoutput.v[i][2] = <<ainput.records[1], ainput.records[3]>>

\* out is what the claim says of topInstrumentsForCandles(records, optionType,
\* topN): each out[i] is the record at place[i] of the records of that type.
RankedAsClaimed(records, optionType, topN, out) ==
    LET typed == SelectSeq(records, LAMBDA r : r.f.option_type = optionType)
    IN  /\ Len(out) = Min(topN, Len(typed))
        /\ \A i \in 1..Len(out) : out[i].f.option_type = optionType
        /\ \A i \in 1..(Len(out) - 1) :
              ~Less(OpenInterest(out[i]), OpenInterest(out[i + 1]))
        /\ \E place \in [1..Len(out) -> 1..Len(typed)] :
              /\ \A i, j \in 1..Len(out) : i # j => place[i] # place[j]
              /\ \A i \in 1..Len(out) : out[i] = typed[place[i]]
              /\ \A n \in 1..Len(typed) :
                    (\A i \in 1..Len(out) : place[i] # n) =>
                        \A i \in 1..Len(out) :
                            ~Less(OpenInterest(out[i]), OpenInterest(typed[n]))
              /\ \A i, j \in 1..Len(out) :
                    (i < j /\ OpenInterest(out[i]) = OpenInterest(out[j])) =>
                        place[i] < place[j]

\* C19: topInstrumentsForCandles(records, optionType, topN), topN >= 0,
\* returns min(topN, number of records of that type) records, all of that
\* type, in non-increasing open interest (a missing one counted as 0); no
\* record of that type it leaves out has a higher open interest than one it
\* returns, and records of equal open interest keep their input order.
C19_TopByOpenInterest ==
    /\ apc = "ranked" =>
          RankedAsClaimed(ainput.records, ainput.optionType, ainput.topN, aoutput.v)
    /\ apc = "reranked" =>
          RankedAsClaimed(ainput.records, ainput.optionType, ainput.topN, aoutput2.v)

\* Of three calls, the first with no open interest and the other two tied
\* above it, the top two are the tied ones in input order.
C19_Witness ==
    /\ apc = "ranked"
    /\ Len(ainput.records) = 3
    /\ ainput.topN = 2
    /\ \A i \in 1..3 : ainput.records[i].f.option_type = ainput.optionType
    /\ ainput.records[1].f.open_interest = JNull
    /\ ainput.records[2] # ainput.records[3]
    /\ OpenInterest(ainput.records[2]) = OpenInterest(ainput.records[3])
    /\ Less(JNum(0), OpenInterest(ainput.records[2]))
    /\ aoutput.v = <<ainput.records[2], ainput.records[3]>>

\* C20: topInstrumentsForCandles applied to its own output, with a topN of at
\* least the output's length, returns that output unchanged.
C20_TopIsIdempotent ==
    (apc = "reranked" /\ ainput.topN >= Len(aoutput.v)) =>
        /\ ainput.records = aoutput.v
        /\ aoutput2 = aoutput

\* A result of two tied records and one below them has been ranked again.
C20_Witness ==
    /\ apc = "reranked"
    /\ Len(aoutput.v) = 3
    /\ ainput.topN = 3
    /\ aoutput.v[1] # aoutput.v[2]
    /\ OpenInterest(aoutput.v[1]) = OpenInterest(aoutput.v[2])
    /\ Less(OpenInterest(aoutput.v[3]), OpenInterest(aoutput.v[2]))
    /\ aoutput2 = aoutput

(***************************************************************************)
(* What the claims say of the display form of an expiry.                   *)
(***************************************************************************)
\* C27: formatExpiryRaw returns DD-MM-20YY of the first 6 characters of a
\* string of at least 6 characters, and its input unchanged when that is
\* absent or a string shorter than 6 characters; for a parsed symbol's
\* expiryRaw the day, month and year shown are those of its expiryDate.
C27_FormatExpiryRaw ==
    /\ apc = "formatted" =>
          LET raw == ainput.expiryStr
          IN  /\ (raw.t = "str" /\ Len(raw.s) >= 6) =>
                    /\ aoutput.t = "str"
                    /\ Len(aoutput.s) = 10
                    /\ SubSeq(aoutput.s, 1, 2) = SubSeq(raw.s, 1, 2)
                    /\ SubSeq(aoutput.s, 3, 3) = "-"
                    /\ SubSeq(aoutput.s, 4, 5) = SubSeq(raw.s, 3, 4)
                    /\ SubSeq(aoutput.s, 6, 8) = "-20"
                    /\ SubSeq(aoutput.s, 9, 10) = SubSeq(raw.s, 5, 6)
              /\ (Nullish(raw) \/ (raw.t = "str" /\ Len(raw.s) < 6)) => aoutput = raw
    /\ apc = "parsedFormatted" =>
          /\ aoutput2.t = "str"
          /\ Len(aoutput2.s) = 10
          /\ SubSeq(aoutput2.s, 1, 2) = SubSeq(aoutput.f.expiryDate.s, 9, 10)
          /\ SubSeq(aoutput2.s, 4, 5) = SubSeq(aoutput.f.expiryDate.s, 6, 7)
          /\ SubSeq(aoutput2.s, 7, 10) = SubSeq(aoutput.f.expiryDate.s, 1, 4)

C27_Witness ==
    /\ apc = "parsedFormatted"
    /\ aoutput.f.expiryRaw = JStr("290224")
    /\ aoutput.f.expiryDate = JStr("2024-02-29")
    /\ aoutput2 = JStr("29-02-2024")

(***************************************************************************)
(* What the claims say of the expiry options.                              *)
(***************************************************************************)
\* The first record of the list whose expiry_ms is the key.
FirstOfKey(records, key) ==
    records[CHOOSE n \in 1..Len(records) :
                /\ records[n].f.expiry_ms = key
                /\ \A k \in 1..(n - 1) : records[k].f.expiry_ms # key]

\* C21: getExpiryOptions returns exactly one entry for each expiry_ms of the
\* input and none for another, the entry's expiryDate and expiryRaw those of
\* the first record with that expiry_ms, and no entry comes after one with a
\* greater expiryMs.
C21_ExpiryOptionsDistinctSorted ==
    apc = "options" =>
        LET options == aoutput.v
            records == ainput.records
        IN  /\ \A n \in 1..Len(records) :
                  \E i \in 1..Len(options) :
                      options[i].f.expiryMs = records[n].f.expiry_ms
            /\ \A i, j \in 1..Len(options) :
                  i # j => options[i].f.expiryMs # options[j].f.expiryMs
            /\ \A i \in 1..Len(options) :
                  /\ \E n \in 1..Len(records) :
                        records[n].f.expiry_ms = options[i].f.expiryMs
                  /\ options[i].f.expiryDate =
                        FirstOfKey(records, options[i].f.expiryMs).f.expiry_date
                  /\ options[i].f.expiryRaw =
                        FirstOfKey(records, options[i].f.expiryMs).f.expiry_raw
            /\ \A i, j \in 1..Len(options) :
                  i < j => ~MsLess(options[j].f.expiryMs, options[i].f.expiryMs)

(***************************************************************************)
(* What the claims say of a strike chart's series.                         *)
(***************************************************************************)
\* The rows of the option type that have a value of the metric.
Qualifying(rows, optionType, metric) ==
    SelectSeq(rows, LAMBDA r : /\ r.f.option_type = JStr(optionType)
                               /\ r.f[metric] # JNull)

\* The series named name, if there is any, holds one point (strike, value)
\* for each of the rows and no other, in non-decreasing strike; without rows
\* there is no series of that name.
SideAsClaimed(series, name, rows, metric) ==
    LET named == SelectSeq(series, LAMBDA x : x.name = name)
    IN  IF Len(rows) = 0 THEN Len(named) = 0
        ELSE /\ Len(named) = 1
             /\ Len(named[1].data) = Len(rows)
             /\ \E place \in [1..Len(rows) -> 1..Len(rows)] :
                   /\ \A i, j \in 1..Len(rows) : i # j => place[i] # place[j]
                   /\ \A i \in 1..Len(rows) :
                         named[1].data[i] =
                             <<rows[place[i]].f.strike, rows[place[i]].f[metric]>>
             /\ \A i \in 1..(Len(rows) - 1) :
                   ~Less(named[1].data[i + 1][1], named[1].data[i][1])

\* C22: buildStrikeSeriesForExpiry(rows, metric) gives, for calls and for
\* puts apart, exactly one point (strike, value) for each row of that type
\* whose value of the metric is not the no-value marker, and no other point,
\* the points of a side in non-decreasing strike; a side without such a row
\* has no points.
C22_StrikeSeries ==
    apc = "series" =>
        /\ SideAsClaimed(aoutput.v, "CE (Call)",
                         Qualifying(ainput.rows, "call", ainput.metric), ainput.metric)
        /\ SideAsClaimed(aoutput.v, "PE (Put)",
                         Qualifying(ainput.rows, "put", ainput.metric), ainput.metric)
        /\ \A i \in 1..Len(aoutput.v) : aoutput.v[i].name \in {"CE (Call)", "PE (Put)"}

\* Two calls given in falling strike and a put without a value: the calls
\* come out in rising strike and there is no series of puts.
C22_Witness ==
    /\ apc = "series"
    /\ Len(ainput.rows) = 3
    /\ ainput.rows[1].f.option_type = JStr("call")
    /\ ainput.rows[2].f.option_type = JStr("call")
    /\ ainput.rows[3].f.option_type = JStr("put")
    /\ Less(ainput.rows[2].f.strike, ainput.rows[1].f.strike)
    /\ ainput.rows[1].f[ainput.metric] # JNull
    /\ ainput.rows[2].f[ainput.metric] # JNull
    /\ ainput.rows[3].f[ainput.metric] = JNull
    /\ Len(aoutput.v) = 1
    /\ aoutput.v[1].data = << <<ainput.rows[2].f.strike, ainput.rows[2].f[ainput.metric]>>,
                              <<ainput.rows[1].f.strike, ainput.rows[1].f[ainput.metric]>> >>

(***************************************************************************)
(* What the claims say of the candles.                                     *)
(***************************************************************************)
\* The payload is absent, or its t is absent, no array or empty.
NothingToChart(chartData) ==
    \/ chartData \in {Undefined, JNull}
    \/ "t" \notin DOMAIN chartData.f
    \/ chartData.f.t.t # "arr"
    \/ chartData.f.t.a = <<>>

\* The element i (from 0) of the payload's array k, undefined where the
\* payload has none.
ValueAt(chartData, k, i) ==
    IF k \in DOMAIN chartData.f /\ chartData.f[k].t = "arr" /\ i < Len(chartData.f[k].a)
    THEN chartData.f[k].a[i + 1]
    ELSE Undefined

\* ms is seconds * 1000.
IsSecondsTimes1000(ms, seconds) ==
    /\ ms.t = "ms"
    /\ ms.msOfDay % 1000 = 0
    /\ ms.days * 86400 + (ms.msOfDay \div 1000) = seconds

\* The decimal digits of epoch milliseconds that are whole seconds.
MsDigits(ms) == ToString(ms.days * 86400 + (ms.msOfDay \div 1000)) \o "000"

SpecExample ==
    JObj([s |-> JStr("ok"), t |-> Nums(<<1700000000, 1700000060>>),
          o |-> Nums(<<10, 11>>), h |-> Nums(<<12, 12>>), l |-> Nums(<<9, 10>>),
          c |-> JArr(<<JNum(11), JFrac(105, 1)>>), v |-> Nums(<<100, 50>>)])

\* C23: buildCandlestickSeries returns null exactly when the payload is
\* absent or its t is absent, no array or empty; for any other payload it
\* returns, without raising, an ohlc list and a volume list of one entry per
\* element of t, in t's order, entry i being (t[i]*1000, o[i], h[i], l[i],
\* c[i]) and (t[i]*1000, v[i]), a missing volume being 0; for the spec's two
\* candles these are [[1700000000000,10,12,9,11],[1700000060000,11,12,10,10.5]]
\* and [[1700000000000,100],[1700000060000,50]].
C23_CandlestickSeries ==
    apc = "candles" =>
        LET chartData == ainput.chartData
        IN  /\ aoutput = JNull <=> NothingToChart(chartData)
            /\ ~NothingToChart(chartData) =>
                  /\ aoutput.t = "obj"
                  /\ Len(aoutput.f.ohlcData.a) = Len(chartData.f.t.a)
                  /\ Len(aoutput.f.volData.a) = Len(chartData.f.t.a)
                  /\ \A n \in 1..Len(chartData.f.t.a) :
                        LET ohlc == aoutput.f.ohlcData.a[n].a
                            vol  == aoutput.f.volData.a[n].a
                        IN  /\ Len(ohlc) = 5 /\ Len(vol) = 2
                            /\ IsSecondsTimes1000(ohlc[1], chartData.f.t.a[n].n)
                            /\ ohlc[2] = ValueAt(chartData, "o", n - 1)
                            /\ ohlc[3] = ValueAt(chartData, "h", n - 1)
                            /\ ohlc[4] = ValueAt(chartData, "l", n - 1)
                            /\ ohlc[5] = ValueAt(chartData, "c", n - 1)
                            /\ vol[1] = ohlc[1]
                            /\ vol[2] = IF ValueAt(chartData, "v", n - 1) \in {Undefined, JNull}
                                        THEN JNum(0)
                                        ELSE ValueAt(chartData, "v", n - 1)
            /\ chartData = SpecExample =>
                  /\ [n \in 1..2 |-> MsDigits(aoutput.f.ohlcData.a[n].a[1])]
                         = <<"1700000000000", "1700000060000">>
                  /\ [n \in 1..2 |-> SubSeq(aoutput.f.ohlcData.a[n].a, 2, 5)]
                         = << <<JNum(10), JNum(12), JNum(9), JNum(11)>>,
                              <<JNum(11), JNum(12), JNum(10), JFrac(105, 1)>> >>
                  /\ [n \in 1..2 |-> MsDigits(aoutput.f.volData.a[n].a[1])]
                         = <<"1700000000000", "1700000060000">>
                  /\ [n \in 1..2 |-> aoutput.f.volData.a[n].a[2]] = <<JNum(100), JNum(50)>>

(***************************************************************************)
(* A standard CSV parser: fields parted by commas, records by line breaks, *)
(* a field in double quotes holding commas, line breaks and doubled        *)
(* quotes.                                                                 *)
(***************************************************************************)
\* The number of double quotes in s.
QuoteCount(s) == Cardinality({ i \in 1..Len(s) : SubSeq(s, i, i) = "\"" })

\* The pieces of s between the occurrences of the character ch.
Pieces(s, ch) ==
    LET at  == { i \in 1..Len(s) : SubSeq(s, i, i) = ch }
        n   == Cardinality(at)
        pos == [k \in 0..(n + 1) |->
                   IF k = 0 THEN 0
                   ELSE IF k = n + 1 THEN Len(s) + 1
                   ELSE CHOOSE i \in at : Cardinality({ j \in at : j < i }) = k - 1]
    IN  [k \in 1..(n + 1) |-> SubSeq(s, pos[k - 1] + 1, pos[k] - 1)]

RECURSIVE Rejoin(_, _, _, _)
\* The pieces from i on, a piece that ends inside a quoted field joined to
\* the next one by ch; open is the piece that is being joined, or <<>>.
Rejoin(pieces, ch, i, open) ==
    IF i > Len(pieces) THEN open
    ELSE LET piece == IF open = <<>> THEN pieces[i] ELSE open[1] \o ch \o pieces[i]
         IN  IF QuoteCount(piece) % 2 = 1
             THEN Rejoin(pieces, ch, i + 1, <<piece>>)
             ELSE <<piece>> \o Rejoin(pieces, ch, i + 1, <<>>)

RECURSIVE Undouble(_, _)
\* The characters of s from i on, every doubled quote as one quote.
Undouble(s, i) ==
    IF i > Len(s) THEN ""
    ELSE IF i < Len(s) /\ SubSeq(s, i, i + 1) = "\"\"" THEN "\"" \o Undouble(s, i + 2)
    ELSE SubSeq(s, i, i) \o Undouble(s, i + 1)

\* The value of a field as written.
FieldValue(field) ==
    IF Len(field) >= 2 /\ SubSeq(field, 1, 1) = "\""
    THEN Undouble(SubSeq(field, 2, Len(field) - 1), 1)
    ELSE field

\* The fields of each record of the text, as written.
CsvFields(text) ==
    LET lines == Rejoin(Pieces(text, "\n"), "\n", 1, <<>>)
    IN  [n \in 1..Len(lines) |-> Rejoin(Pieces(lines[n], ","), ",", 1, <<>>)]

\* The values of each record of the text.
ParseCsv(text) ==
    LET fields == CsvFields(text)
    IN  [n \in 1..Len(fields) |->
            [k \in 1..Len(fields[n]) |-> FieldValue(fields[n][k])]]

(***************************************************************************)
(* What the claims say of the exported chain.                              *)
(***************************************************************************)
ChainColumns ==
    <<"symbol", "product_id", "asset", "option_type", "strike", "expiry_date",
      "expiry_raw", "spot_price", "mark_price", "bid_price", "ask_price",
      "bid_size", "ask_size", "bid_iv", "ask_iv", "open_interest", "volume",
      "turnover_usd", "delta", "gamma", "theta", "vega", "rho">>

ChainHeader ==
    "symbol,product_id,asset,option_type,strike,expiry_date,expiry_raw,spot_price,"
        \o "mark_price,bid_price,ask_price,bid_size,ask_size,bid_iv,ask_iv,"
        \o "open_interest,volume,turnover_usd,delta,gamma,theta,vega,rho"

\* The record has no value of the column.
Missing(r, column) == column \notin DOMAIN r.f \/ r.f[column] \in {JNull, Undefined}

\* C24: recordsToCsv writes the header row of its 23 columns first, also for
\* an empty list (then nothing else), and for N records N + 1 lines, every
\* data line with one cell per column in the header's order, the cell of a
\* field without a value empty.
C24_CsvShape ==
    apc = "recordsCsv" =>
        LET records == ainput.records
            text    == aoutput.s
            parsed  == ParseCsv(text)
        IN  /\ Len(ChainColumns) = 23
            /\ SubSeq(text, 1, Len(ChainHeader)) = ChainHeader
            /\ records = <<>> => text = ChainHeader
            /\ records # <<>> =>
                  SubSeq(text, Len(ChainHeader) + 1, Len(ChainHeader) + 1) = "\n"
            /\ Len(parsed) = Len(records) + 1
            /\ parsed[1] = ChainColumns
            /\ \A n \in 1..Len(records) :
                  /\ Len(parsed[n + 1]) = 23
                  /\ \A k \in 1..23 :
                        Missing(records[n], ChainColumns[k]) => parsed[n + 1][k] = ""
            /\ (\A n \in 1..Len(records) : \A k \in 1..23 :
                    Missing(records[n], ChainColumns[k])
                        \/ ~Contains(StringOf(records[n].f[ChainColumns[k]]), "\n"))
                   => Len(Pieces(text, "\n")) = Len(records) + 1

\* A record with values and a record that lacks most of them have been
\* written.
C24_Witness ==
    /\ apc = "recordsCsv"
    /\ Len(ainput.records) = 2
    /\ ainput.records[1].f.symbol = JStr("C-BTC-95200-200225")
    /\ ainput.records[2].f.symbol = JStr("P-BTC-95200-200225")
    /\ ainput.records[2].f.open_interest = JNull
    /\ Len(Pieces(aoutput.s, "\n")) = 3
    /\ Pieces(aoutput.s, "\n")[3] = "P-BTC-95200-200225,102,BTC,put,95200,2025-02-20,200225,,,,,,,,,,,,,,,,"

\* The value reads as the text: a string is the text, a number is the number
\* the text writes.
ReadsAs(text, v) ==
    IF v.t = "str" THEN text = v.s ELSE ParseFloatText(text) = v

\* C25: in the output of recordsToCsv every cell whose value has a comma, a
\* double quote or a line break is wrapped in double quotes, its own quotes
\* doubled, and a standard CSV parser recovers for every row and column the
\* value of a field that has one and the empty string for a field that has
\* none.
C25_CsvRoundTrip ==
    apc = "recordsCsv" =>
        LET records == ainput.records
            fields  == CsvFields(aoutput.s)
        IN  /\ Len(fields) = Len(records) + 1
            /\ \A n \in 1..Len(records) :
                  /\ Len(fields[n + 1]) = 23
                  /\ \A k \in 1..23 :
                        LET field == fields[n + 1][k]
                            v     == Get(records[n], ChainColumns[k])
                        IN  IF Missing(records[n], ChainColumns[k])
                            THEN FieldValue(field) = ""
                            ELSE /\ ReadsAs(FieldValue(field), v)
                                 /\ (\/ Contains(StringOf(v), ",")
                                     \/ Contains(StringOf(v), "\"")
                                     \/ Contains(StringOf(v), "\n")) =>
                                       /\ SubSeq(field, 1, 1) = "\""
                                       /\ SubSeq(field, Len(field), Len(field)) = "\""
                                       /\ Len(field) = Len(StringOf(v)) + 2
                                                           + QuoteCount(StringOf(v))
                                       /\ QuoteCount(field) = 2 + 2 * QuoteCount(StringOf(v))

\* Records whose symbols hold commas, quotes and a line break have been
\* written and read back.
C25_Witness ==
    /\ apc = "recordsCsv"
    /\ Len(ainput.records) = 3
    /\ ainput.records[1].f.symbol = JStr("P-,\"\"-1-2\"0,225")
    /\ ainput.records[2].f.symbol = JStr("C-BTC-Infinity-200225\nW")
    /\ ainput.records[3].f.symbol = JStr("C-BTC-95200-200225")
    /\ ParseCsv(aoutput.s)[2][1] = "P-,\"\"-1-2\"0,225"
    /\ ParseCsv(aoutput.s)[3][1] = "C-BTC-Infinity-200225\nW"
    /\ ParseCsv(aoutput.s)[4][9] = "1250.5"

(***************************************************************************)
(* What the claims say of the exported candles.                            *)
(***************************************************************************)
\* The series has an array of timestamps.
HasTimestamps(item) ==
    /\ item.f.chartData.t = "obj"
    /\ "t" \in DOMAIN item.f.chartData.f
    /\ item.f.chartData.f.t.t = "arr"

RECURSIVE CandlesOf(_, _)
\* The candles of the series from n on, in the order of the series and then of
\* the timestamps: each the number of its series and its index from 0.
CandlesOf(items, n) ==
    IF n > Len(items) THEN <<>>
    ELSE (IF HasTimestamps(items[n])
          THEN [i \in 1..Len(items[n].f.chartData.f.t.a) |-> <<n, i - 1>>]
          ELSE <<>>) \o CandlesOf(items, n + 1)

\* The text of the value at index i of the array k of a series, empty where
\* there is none.
CandleText(item, k, i) ==
    LET v == ValueAt(item.f.chartData, k, i)
    IN  IF v.t \in {"null", "undefined"} THEN "" ELSE StringOf(v)

\* text writes, as YYYY-MM-DDTHH:mm:ss.000Z, the instant that is these seconds
\* after 1970-01-01T00:00:00Z.
IsIsoOf(text, seconds) ==
    /\ Len(text) = 24
    /\ SubSeq(text, 5, 5) = "-" /\ SubSeq(text, 8, 8) = "-"
    /\ SubSeq(text, 11, 11) = "T"
    /\ SubSeq(text, 14, 14) = ":" /\ SubSeq(text, 17, 17) = ":"
    /\ SubSeq(text, 20, 24) = ".000Z"
    /\ AllDigits(SubSeq(text, 1, 4)) /\ AllDigits(SubSeq(text, 6, 7))
    /\ AllDigits(SubSeq(text, 9, 10)) /\ AllDigits(SubSeq(text, 12, 13))
    /\ AllDigits(SubSeq(text, 15, 16)) /\ AllDigits(SubSeq(text, 18, 19))
    /\ LET y  == DigitsRange(text, 1, 4)
           m  == DigitsRange(text, 6, 7)
           d  == DigitsRange(text, 9, 10)
           hh == DigitsRange(text, 12, 13)
           mi == DigitsRange(text, 15, 16)
           ss == DigitsRange(text, 18, 19)
       IN  /\ m \in 1..12 /\ d \in 1..DaysInMonth(y, m)
           /\ hh < 24 /\ mi < 60 /\ ss < 60
           /\ DaysBeforeYear(y) + DaysBeforeMonth(y, m) + d - 1 = seconds \div 86400
           /\ hh * 3600 + mi * 60 + ss = seconds % 86400

\* The line is the row of the candle i of the series: its symbol, its option
\* type, the timestamp, the timestamp as a datetime, and the open, high, low,
\* close and volume at i, with commas between.
IsRowOf(line, item, i) ==
    LET time   == item.f.chartData.f.t.a[i + 1].n
        head   == item.f.symbol.s \o "," \o item.f.option_type.s \o ","
                      \o ToString(time) \o ","
        rest   == "," \o CandleText(item, "o", i) \o "," \o CandleText(item, "h", i)
                      \o "," \o CandleText(item, "l", i) \o "," \o CandleText(item, "c", i)
                      \o "," \o CandleText(item, "v", i)
    IN  /\ Len(line) = Len(head) + 24 + Len(rest)
        /\ SubSeq(line, 1, Len(head)) = head
        /\ IsIsoOf(SubSeq(line, Len(head) + 1, Len(head) + 24), time)
        /\ SubSeq(line, Len(head) + 25, Len(line)) = rest

\* C26: the candles are exported as a header line and then one line for each
\* timestamp of each series that has an array of timestamps, the series in
\* their order and the timestamps of a series in theirs; a series without
\* such an array adds no line, and no series at all leaves the header alone.
\* Each line holds the symbol, the option type, the timestamp, its datetime
\* and the open, high, low, close and volume at the index of the timestamp.
C26_CandlesCsv ==
    apc = "candlesCsv" =>
        /\ aoutput.t = "str"
        /\ LET lines   == Pieces(aoutput.s, "\n")
               candles == CandlesOf(ainput.candlestickData, 1)
           IN  /\ Len(lines) = 1 + Len(candles)
               /\ lines[1] = "symbol,option_type,timestamp_unix,datetime_utc,open,high,low,close,volume"
               /\ \A n \in 1..Len(candles) :
                     IsRowOf(lines[n + 1], ainput.candlestickData[candles[n][1]],
                             candles[n][2])

\* Two series were exported, the second without an array of timestamps and
\* the first with two candles, one of them without a volume.
C26_Witness ==
    /\ apc = "candlesCsv"
    /\ Len(ainput.candlestickData) = 2
    /\ HasTimestamps(ainput.candlestickData[1])
    /\ Len(ainput.candlestickData[1].f.chartData.f.t.a) = 2
    /\ CandleText(ainput.candlestickData[1], "v", 1) = ""
    /\ CandleText(ainput.candlestickData[1], "c", 1) # CandleText(ainput.candlestickData[1], "c", 0)
    /\ ~HasTimestamps(ainput.candlestickData[2])
    /\ aoutput.t = "str"
    /\ Len(Pieces(aoutput.s, "\n")) = 3

\* C29: read as CSV, each line of candles has nine fields, the first the
\* symbol and the second the option type of its series, whatever characters
\* they hold.
C29_CandleRowsHaveNineFields ==
    (apc = "candlesCsv" /\ aoutput.t = "str") =>
        LET rows    == ParseCsv(aoutput.s)
            candles == CandlesOf(ainput.candlestickData, 1)
        IN  /\ Len(rows) = 1 + Len(candles)
            /\ \A n \in 1..Len(candles) :
                  /\ Len(rows[n + 1]) = 9
                  /\ rows[n + 1][1] = ainput.candlestickData[candles[n][1]].f.symbol.s
                  /\ rows[n + 1][2] = ainput.candlestickData[candles[n][1]].f.option_type.s

(***************************************************************************)
(* What the claims say of getOptionProducts.                               *)
(***************************************************************************)
\* C28: getOptionProducts(asset) resolves with products of that asset only:
\* no product whose underlying asset has another symbol is among them.
C28_ProductsOfTheAsset ==
    apc = "products" =>
        \A n \in 1..Len(aoutput) :
            LET asset == Get(Get(aoutput[n], "underlying_asset"), "symbol")
            IN  asset.t = "str" => asset.s = ainput.underlyingAssetSymbol

(***************************************************************************)
(* What the claims say of the list a function is called with.              *)
(***************************************************************************)
\* C30: normalizeOptionChain, groupByExpiry, topInstrumentsForCandles,
\* getExpiryOptions, buildStrikeSeriesForExpiry, recordsToCsv and
\* candlestickToCsv leave the list they are called with, and its elements,
\* as they were: whichever of them is called, and in whatever order, the list
\* the caller holds stays the same.
C30_InputUnchanged ==
    [][apc # "idle" => aheld' = aheld]_vars

\* A second call has returned on records that are not in the order a sort
\* of the call leaves: the first holds less open interest than the second.
C30_Witness ==
    /\ apc = "calledAgain"
    /\ aheld.of = "records"
    /\ Len(aheld.a) = 2
    /\ ainput.fn = "topInstrumentsForCandles"
    /\ aoutput.t = "value"
    /\ Len(aoutput.v) = 2
    /\ aoutput.v[1] = aheld.a[2]
    /\ aoutput.v[2] = aheld.a[1]
    /\ aoutput.v[1] # aoutput.v[2]
====
